---- MODULE Spec2Model ----
(***************************************************************************)
(* Scoring -> allocation -> validation pipeline of the investment agent.   *)
(*                                                                         *)
(* Number representation.  The Python code computes in floats; the model   *)
(* computes in integers:                                                   *)
(*   - percentages are integers (30 means 30%);                            *)
(*   - currency amounts are kept multiplied by 100, so that                *)
(*     amount * (pct / 100) is the integer amount * pct;                   *)
(*   - scores are kept multiplied by 10000 (10000 is the score 1.0);       *)
(*   - expected_return and expected_risk are kept multiplied by 100.       *)
(* A Python dict is a function whose DOMAIN is its key set; a dict whose   *)
(* iteration order matters (the score mappings) is the sequence of its     *)
(* items in insertion order.                                               *)
(***************************************************************************)
EXTENDS Integers, Sequences, FiniteSets, TLC

VARIABLES
    \* ---- portfolio construction and validation (portfolio_agents.py)
    user_profile,        \* the user profile dict handed to validate_and_adjust
    construct_profile,   \* the user profile dict handed to construct
    asset_scores,        \* the asset-score mapping handed to construct
    investment_amount,   \* the investment budget (plain units)
    portfolio,           \* the portfolio dict as it moves through the pipeline
    input_portfolio,     \* the portfolio as it was handed to validate_and_adjust
    pc,                  \* position of the caller in the pipeline
    \* ---- scoring agents (analytical_agents.py, agent.py)
    scorer_input,        \* the asset or fund record handed to a scorer
    sub_score,           \* [agent, value]: the scorer that ran and its result
    spc,                 \* "idle" before a scorer ran, "scored" after
    \* ---- ranking the same scores under two insertion orders
    scores_a,            \* a score mapping, its items in insertion order
    scores_b,            \* the same items inserted in another order
    ranked_a,            \* the identifiers ranked from scores_a
    ranked_b,            \* the identifiers ranked from scores_b
    kpc,                 \* which ranking ran: "selected", "recommended"
    \* ---- RebalancingAgent
    current_portfolio,   \* class -> current amount (plain units)
    target_allocation,   \* class -> target percentage
    analysis,            \* the dict analyze_rebalancing_need returned
    rpc,                 \* "idle" before the analysis, "analyzed" after
    \* ---- metric functions on price sequences
    metric_prices,       \* the price sequence handed to the metric
    metric_period,       \* the period argument of _calculate_rsi
    metric_arg,          \* the number handed to _score_rsi or _score_market_cap
    metric_out,          \* [metric, value]: the metric that ran, its result
    mpc,                 \* "idle" before a metric ran, "done" after
    \* ---- InvestmentAgent._score_assets and what it feeds (agent.py)
    market_data,         \* the market data dict: stock and fund records
    scoring_profile,     \* the user profile dict handed to _score_assets
    weights_out,         \* the dict _get_scoring_weights returned
    scores_out,          \* the scores dict _score_assets returned
    confidence_out,      \* the value _calculate_confidence returned
    apc,                 \* "idle", then "weighted", "aggregated", "scored", "rated"
    \* ---- UserProfilingAgent and the portfolio built for its profile
    profile_args,        \* the arguments handed to create_profile
    created_profile,     \* the profile dict create_profile returned
    profile_portfolio,   \* the validated portfolio built for that profile
    upc,                 \* "idle", then "profiled", "allocated"
    \* ---- StockDataAgent.fetch_stock_data and its cache (data_agents.py)
    clock,               \* datetime.now(), in seconds
    cache,               \* self.cache: symbol -> [data, timestamp]
    cache_before,        \* self.cache as the last call found it
    fetch_out,           \* the last call: symbol, call time, result, cache hit
    calls,               \* number of fetch_stock_data calls made
    advances             \* number of times the clock was advanced between calls

pvars == <<user_profile, construct_profile, asset_scores, investment_amount,
           portfolio, input_portfolio, pc>>
svars == <<scorer_input, sub_score, spc>>
kvars == <<scores_a, scores_b, ranked_a, ranked_b, kpc>>
rvars == <<current_portfolio, target_allocation, analysis, rpc>>
mvars == <<metric_prices, metric_period, metric_arg, metric_out, mpc>>
avars == <<market_data, scoring_profile, weights_out, scores_out,
           confidence_out, apc>>

uvars == <<profile_args, created_profile, profile_portfolio, upc>>

cvars == <<clock, cache, cache_before, fetch_out, calls, advances>>

vars == <<pvars, svars, kvars, rvars, mvars, avars, uvars, cvars>>

\* what the actions of one component leave alone
notPortfolio   == <<svars, kvars, rvars, mvars, avars, uvars, cvars>>
notScoring     == <<pvars, kvars, rvars, mvars, avars, uvars, cvars>>
notRanking     == <<pvars, svars, rvars, mvars, avars, uvars, cvars>>
notRebalancing == <<pvars, svars, kvars, mvars, avars, uvars, cvars>>
notMetrics     == <<pvars, svars, kvars, rvars, avars, uvars, cvars>>
notAggregate   == <<pvars, svars, kvars, rvars, mvars, uvars, cvars>>
notProfiling   == <<pvars, svars, kvars, rvars, mvars, avars, cvars>>
notCache       == <<pvars, svars, kvars, rvars, mvars, avars, uvars>>

-----------------------------------------------------------------------------
(* Generic helpers *)

EmptyDict == [k \in {} |-> 0]

\* dict.get(key, default)
Get(d, k, default) == IF k \in DOMAIN d THEN d[k] ELSE default

Abs(x) == IF x < 0 THEN -x ELSE x
Min(a, b) == IF a < b THEN a ELSE b
Max(a, b) == IF a > b THEN a ELSE b

RECURSIVE SumOver(_, _)
\* sum(f[k] for k in S)
SumOver(f, S) ==
    IF S = {} THEN 0
    ELSE LET k == CHOOSE x \in S : TRUE
         IN  f[k] + SumOver(f, S \ {k})

\* sum(d.values())
SumValues(d) == SumOver(d, DOMAIN d)

RECURSIVE SqrtSearch(_, _, _)
SqrtSearch(n, lo, hi) ==
    IF lo >= hi THEN lo
    ELSE LET mid == (lo + hi + 1) \div 2
         IN  IF mid * mid <= n THEN SqrtSearch(n, mid, hi)
                               ELSE SqrtSearch(n, lo, mid - 1)

\* floor of the square root (x ** 0.5 on the scaled integers); the search
\* stays below 46341, the largest root of a 32-bit integer
ISqrt(n) == IF n <= 0 THEN 0 ELSE SqrtSearch(n, 0, Min(n, 46340))

-----------------------------------------------------------------------------
(* PortfolioConstructionAgent *)

Classes == {"Equity", "Debt", "Gold", "Cash"}

\* C12 mutant: a lookup whose fallback is the first table, not Balanced
GetStrategicAllocationFirstAsDefault(risk_profile) ==
    CASE risk_profile = "Balanced" ->
            [Equity |-> 50, Debt |-> 35, Gold |-> 10, Cash |-> 5]
      [] risk_profile = "Aggressive" ->
            [Equity |-> 70, Debt |-> 20, Gold |-> 5, Cash |-> 5]
      [] OTHER ->
            [Equity |-> 30, Debt |-> 50, Gold |-> 15, Cash |-> 5]

\* _get_strategic_allocation: allocations.get(risk_profile, allocations['Balanced'])
GetStrategicAllocation(risk_profile) ==
    CASE risk_profile = "Conservative" ->
            [Equity |-> 30, Debt |-> 50, Gold |-> 15, Cash |-> 5]
      [] risk_profile = "Aggressive" ->
            [Equity |-> 70, Debt |-> 20, Gold |-> 5, Cash |-> 5]
      [] OTHER ->
            [Equity |-> 50, Debt |-> 35, Gold |-> 10, Cash |-> 5]

\* expected_returns table of _estimate_return (annualized %)
ExpectedReturns == [Equity |-> 12, Debt |-> 7, Gold |-> 8, Cash |-> 4]

\* asset_risks table of _estimate_risk (std dev)
AssetRisks == [Equity |-> 18, Debt |-> 5, Gold |-> 12, Cash |-> 1]

\* _estimate_return, times 100: sum(pct * expected_return / 100)
EstimateReturn(allocation) ==
    SumOver([a \in DOMAIN allocation |->
                allocation[a] * Get(ExpectedReturns, a, 0)],
            DOMAIN allocation)

\* _estimate_risk, times 100: sum((pct/100)**2 * risk**2) ** 0.5
EstimateRisk(allocation) ==
    ISqrt(SumOver([a \in DOMAIN allocation |->
                      allocation[a] * allocation[a]
                      * Get(AssetRisks, a, 0) * Get(AssetRisks, a, 0)],
                  DOMAIN allocation))

\* p * (p ** 0.5) for the proportion v / total, times 10000
EntropyTerm(v, total) ==
    LET p  == (v * 10000) \div total
        rt == ISqrt(p * 10000)
    IN  (p * rt) \div 10000

\* _calculate_diversification, times 10000
CalculateDiversification(allocation) ==
    LET total == SumValues(allocation)
    IN  IF total = 0 THEN 0
        ELSE LET terms == [a \in DOMAIN allocation |->
                              IF allocation[a] * total > 0
                                  THEN EntropyTerm(allocation[a], total)
                                  ELSE 0]
                 entropy == -SumOver(terms, DOMAIN allocation)
             IN  Min(entropy \div 2, 10000)

\* Put(d, k, v): d[k] = v on a dict
Put(d, k, v) == [x \in DOMAIN d \cup {k} |-> IF x = k THEN v ELSE d[x]]

RECURSIVE SortedIdx(_, _)
\* sorted(items, key=..., reverse=True) on the first n items, as the sequence
\* of their positions: Python's sort is stable, also under reverse=True, so an
\* item goes after every item whose key is greater than or equal to its own.
SortedIdx(keys, n) ==
    IF n = 0 THEN <<>>
    ELSE LET prev == SortedIdx(keys, n - 1)
             pos  == Cardinality({k \in 1..Len(prev) : keys[prev[k]] >= keys[n]})
         IN  SubSeq(prev, 1, pos) \o <<n>> \o SubSeq(prev, pos + 1, Len(prev))

\* sorted(d.items(), key=score, reverse=True) for a mapping given by its
\* items in insertion order, each item a record with a score field
SortedByScore(items) ==
    LET idx == SortedIdx([i \in 1..Len(items) |-> items[i].score], Len(items))
    IN  [i \in 1..Len(items) |-> items[idx[i]]]

\* seq[:n]
Take(seq, n) == SubSeq(seq, 1, Min(n, Len(seq)))

NoInstruments == [stocks |-> <<>>, mutual_funds |-> <<>>, etfs |-> <<>>, debt |-> <<>>]

\* C16 mutant: the same number of stocks for every profile
NumStocksAlwaysSeven(risk_profile) == 7

\* num_stocks = 5 if risk_profile == 'Conservative' else 7
NumStocks(risk_profile) == IF risk_profile = "Conservative" THEN 5 ELSE 7

\* num_mfs = 3
NumMfs == 3

\* the debt instruments of _select_instruments (amounts times 100)
DebtInstruments(debt_amount) ==
    IF debt_amount > 0
        THEN << [type |-> "Debt Mutual Funds", amount |-> (debt_amount * 6) \div 10],
                [type |-> "Fixed Deposits",    amount |-> (debt_amount * 4) \div 10] >>
        ELSE <<>>

\* the gold instrument of _select_instruments
GoldInstruments(gold_amount) ==
    IF gold_amount > 0
        THEN << [type |-> "Gold ETF", amount |-> gold_amount] >>
        ELSE <<>>

\* _select_instruments.  asset_scores.stocks / .mutual_funds are the items of
\* the score mappings in insertion order; a stock item whose well_formed is
\* FALSE lacks 'aggregate_score', so sorted() raises and the except branch
\* returns the instruments built so far (none).
SelectInstruments(scores, allocation, risk_profile) ==
    LET stock_scores  == Get(scores, "stocks", <<>>)
        mf_scores     == Get(scores, "mutual_funds", <<>>)
        raises        == \E i \in 1..Len(stock_scores) : ~stock_scores[i].well_formed
        equity_amount == Get(allocation, "Equity", 0)
        top_stocks    == Take(SortedByScore(stock_scores), NumStocks(risk_profile))
        top_mfs       == Take(SortedByScore(mf_scores), NumMfs)
    IN  IF raises THEN NoInstruments
        ELSE [stocks |->
                 [i \in 1..Len(top_stocks) |->
                     [symbol |-> top_stocks[i].id,
                      amount |-> (equity_amount * 6) \div (10 * Len(top_stocks)),
                      score  |-> top_stocks[i].score]],
              mutual_funds |->
                 [i \in 1..Len(top_mfs) |->
                     [code   |-> top_mfs[i].id,
                      amount |-> (equity_amount * 4) \div (10 * Len(top_mfs)),
                      score  |-> top_mfs[i].score]],
              etfs |-> GoldInstruments(Get(allocation, "Gold", 0)),
              debt |-> DebtInstruments(Get(allocation, "Debt", 0))]

\* construct: user_profile['risk_profile'] raises KeyError on a profile
\* without the key, and the except branch returns {}.
ConstructPortfolio(up, scores, amount) ==
    IF "risk_profile" \notin DOMAIN up THEN EmptyDict
    ELSE LET risk_profile == up["risk_profile"]
             strategic    == GetStrategicAllocation(risk_profile)
             allocation   == [c \in DOMAIN strategic |-> amount * strategic[c]]
         IN  [allocation            |-> allocation,
              strategic_percentages |-> strategic,
              instruments           |-> SelectInstruments(scores, allocation, risk_profile),
              total_amount          |-> amount,
              risk_profile          |-> risk_profile,
              expected_return       |-> EstimateReturn(strategic),
              expected_risk         |-> EstimateRisk(strategic),
              diversification_score |-> CalculateDiversification(allocation)]

-----------------------------------------------------------------------------
(* MetaController *)

\* C26 mutant: a Conservative table whose Equity share is above the bound
TargetAllocationsAboveBound(target_risk) ==
    CASE target_risk = "Conservative" ->
            [Equity |-> 45, Debt |-> 35, Gold |-> 15, Cash |-> 5]
      [] target_risk = "Aggressive" ->
            [Equity |-> 70, Debt |-> 20, Gold |-> 5, Cash |-> 5]
      [] OTHER ->
            [Equity |-> 50, Debt |-> 35, Gold |-> 10, Cash |-> 5]

\* target_allocations of _rebalance_for_risk
TargetAllocations(target_risk) ==
    CASE target_risk = "Conservative" ->
            [Equity |-> 30, Debt |-> 50, Gold |-> 15, Cash |-> 5]
      [] target_risk = "Aggressive" ->
            [Equity |-> 70, Debt |-> 20, Gold |-> 5, Cash |-> 5]
      [] OTHER ->
            [Equity |-> 50, Debt |-> 35, Gold |-> 10, Cash |-> 5]

\* C2 mutant: a reallocation that forgets to recompute the derived figures
RebalanceForRiskStale(p, target_risk) ==
    LET target       == TargetAllocations(target_risk)
        total_amount == Get(p, "total_amount", 0)
        new_alloc    == [c \in DOMAIN target |-> total_amount * target[c]]
    IN  Put(Put(p, "allocation", new_alloc), "strategic_percentages", target)

\* C13 mutant: a reallocation that leaves the currency amounts as they were
RebalanceForRiskKeepingAmounts(p, target_risk) ==
    LET target == TargetAllocations(target_risk)
    IN  Put(Put(Put(p, "strategic_percentages", target),
                "expected_return", EstimateReturn(target)),
            "expected_risk", EstimateRisk(target))

\* C15 mutant: a reallocation that also recomputes the diversification score
RebalanceForRiskWithDiversification(p, target_risk) ==
    LET target       == TargetAllocations(target_risk)
        total_amount == Get(p, "total_amount", 0)
        new_alloc    == [c \in DOMAIN target |-> total_amount * target[c]]
    IN  Put(Put(Put(Put(Put(p, "allocation", new_alloc),
                        "strategic_percentages", target),
                    "expected_return", EstimateReturn(target)),
                "expected_risk", EstimateRisk(target)),
            "diversification_score", CalculateDiversification(new_alloc))

\* _rebalance_for_risk: overwrites four keys of the portfolio
RebalanceForRisk(p, target_risk) ==
    LET target       == TargetAllocations(target_risk)
        total_amount == Get(p, "total_amount", 0)
        new_alloc    == [c \in DOMAIN target |-> total_amount * target[c]]
    IN  Put(Put(Put(Put(p, "allocation", new_alloc),
                    "strategic_percentages", target),
                "expected_return", EstimateReturn(target)),
            "expected_risk", EstimateRisk(target))

IssueSum      == "Allocation doesn't sum to 100%"
IssueHigh     == "Equity allocation too high for Conservative profile"
IssueLow      == "Equity allocation too low for Aggressive profile"
IssueDiv      == "Insufficient diversification"
IssueCash     == "Consider building larger emergency fund"

\* the equity bounds of Check 2
ConservativeMaxEquity == 40
AggressiveMinEquity == 60

\* div_score < 0.3, on scores times 10000
MinDiversification == 3000

\* C14 mutant: adjustments_made only when Check 2 did reallocate
ValidationReportOnReallocation(issues) ==
    [passed           |-> Len(issues) = 0,
     issues           |-> issues,
     adjustments_made |-> \E i \in 1..Len(issues) : issues[i] \in {IssueHigh, IssueLow}]

\* the validation report attached to the portfolio
ValidationReport(issues) ==
    [passed           |-> Len(issues) = 0,
     issues           |-> issues,
     adjustments_made |-> Len(issues) > 0]

\* validate_and_adjust.  user_profile['risk_profile'] raises KeyError on a
\* profile without the key; the except branch returns the portfolio as it is
\* then (nothing has been written to it yet).
ValidateAndAdjust(p, up) ==
    LET allocation == Get(p, "allocation", EmptyDict)
        strategic  == Get(p, "strategic_percentages", EmptyDict)
        total_pct  == SumValues(strategic)
        issues1    == IF Abs(total_pct - 100) > 1 THEN <<IssueSum>> ELSE <<>>
    IN  IF "risk_profile" \notin DOMAIN up THEN p
        ELSE
        LET risk_profile == up["risk_profile"]
            equity_pct   == Get(strategic, "Equity", 0)
            too_high     == risk_profile = "Conservative" /\ equity_pct > ConservativeMaxEquity
            too_low      == risk_profile = "Aggressive" /\ equity_pct < AggressiveMinEquity
            issues2      == IF too_high THEN Append(issues1, IssueHigh)
                            ELSE IF too_low THEN Append(issues1, IssueLow)
                            ELSE issues1
            p2           == IF too_high THEN RebalanceForRisk(p, "Conservative")
                            ELSE IF too_low THEN RebalanceForRisk(p, "Aggressive")
                            ELSE p
            div_score    == Get(p2, "diversification_score", 0)
            issues3      == IF div_score < MinDiversification
                                THEN Append(issues2, IssueDiv) ELSE issues2
            cash_amount  == Get(allocation, "Cash", 0)
            income       == Get(up, "income", 0)
            issues4      == IF cash_amount < income * 3 * 100
                                THEN Append(issues3, IssueCash) ELSE issues3
        IN  Put(p2, "validation", ValidationReport(issues4))

-----------------------------------------------------------------------------
(* Analytical scoring agents (analytical_agents.py).  Inputs: pe_ratio,     *)
(* pb_ratio, returns (%), volatility (%) are integers; dividend_yield is in *)
(* basis points (200 is the fraction 0.02); market_cap is in units of 1e10; *)
(* prices are integers.  Scores are times 10000.                            *)

\* min(max(score, 0), 1)
Clamp01(x) == Min(Max(x, 0), 10000)

\* the neutral score 0.5
Neutral == 5000

\* the value of a field that is present but is not a number (None, a string)
NotANumber == -1000000

\* comparing or dividing one of the fields raises TypeError inside the try
Raises(asset_data, fields) ==
    \E f \in fields \cap DOMAIN asset_data : asset_data[f] = NotANumber

\* sector_pe_benchmarks.get(sector, 20.0)
SectorPeBenchmark(sector) ==
    CASE sector = "Technology" -> 25
      [] sector = "Finance"    -> 15
      [] sector = "Healthcare" -> 30
      [] sector = "Consumer"   -> 40
      [] sector = "Energy"     -> 12
      [] OTHER                 -> 20

\* C3 mutant: the valuation score without its final clamp
ValuationScoreUnclamped(asset_data) ==
    LET pe_ratio  == Get(asset_data, "pe_ratio", 0)
        benchmark == SectorPeBenchmark(Get(asset_data, "sector", "Default"))
        pe_part   == IF pe_ratio > 0
                        THEN (Max(0, 10000 - ((pe_ratio * 10000) \div benchmark - 10000)) * 4) \div 10
                        ELSE (Neutral * 4) \div 10
        pb_ratio  == Get(asset_data, "pb_ratio", 0)
        pb_part   == IF pb_ratio > 0
                        THEN (Max(0, 10000 - (pb_ratio * 10000) \div 3) * 3) \div 10
                        ELSE (Neutral * 3) \div 10
        div_score == Min(Get(asset_data, "dividend_yield", 0) * 20, 10000)
    IN  pe_part + pb_part + (div_score * 3) \div 10

\* ValuationAgent.score; the except branch returns 0.5
ValuationScore(asset_data) ==
    IF Raises(asset_data, {"pe_ratio", "pb_ratio", "dividend_yield"}) THEN Neutral ELSE
    LET pe_ratio  == Get(asset_data, "pe_ratio", 0)
        benchmark == SectorPeBenchmark(Get(asset_data, "sector", "Default"))
        \* max(0, 1 - (pe_ratio / benchmark_pe - 1)) * 0.4
        pe_part   == IF pe_ratio > 0
                        THEN (Max(0, 10000 - ((pe_ratio * 10000) \div benchmark - 10000)) * 4) \div 10
                        ELSE (Neutral * 4) \div 10
        pb_ratio  == Get(asset_data, "pb_ratio", 0)
        \* max(0, 1 - pb_ratio / 3) * 0.3
        pb_part   == IF pb_ratio > 0
                        THEN (Max(0, 10000 - (pb_ratio * 10000) \div 3) * 3) \div 10
                        ELSE (Neutral * 3) \div 10
        \* min(dividend_yield * 100 / 5, 1)
        div_score == Min(Get(asset_data, "dividend_yield", 0) * 20, 10000)
    IN  Clamp01(pe_part + pb_part + (div_score * 3) \div 10)

\* MomentumAgent._score_returns
ScoreReturns(returns) ==
    IF returns > 20 THEN 10000
    ELSE IF returns < -20 THEN 0
    ELSE ((returns + 20) * 10000) \div 40

RECURSIVE SumRange(_, _, _)
\* f[lo] + ... + f[hi], by halves
SumRange(f, lo, hi) ==
    IF lo > hi THEN 0
    ELSE IF lo = hi THEN f[lo]
    ELSE LET mid == (lo + hi) \div 2
         IN  SumRange(f, lo, mid) + SumRange(f, mid + 1, hi)

\* sum(f(i) for i in 1..n) of a sequence
SumSeq(f, n) == SumRange(f, 1, n)

\* MomentumAgent._calculate_trend_strength: least-squares slope over the index
\* 0..n-1, normalised by the mean price; slope and mean are kept times 1000.
\* A mean of 0 divides by zero and the bare except returns 0.5.
CalculateTrendStrength(prices) ==
    LET n     == Len(prices)
        sx    == SumSeq([i \in 1..n |-> i - 1], n)
        sy    == SumSeq(prices, n)
        sxy   == SumSeq([i \in 1..n |-> (i - 1) * prices[i]], n)
        sxx   == SumSeq([i \in 1..n |-> (i - 1) * (i - 1)], n)
        num   == n * sxy - sx * sy
        den   == n * sxx - sx * sx
    IN  IF n = 0 THEN Neutral
        ELSE IF den = 0 THEN Neutral
        ELSE IF sy = 0 THEN Neutral
        ELSE LET slope      == (num * 1000) \div den
                 y_mean     == (sy * 1000) \div n
                 normalized == IF y_mean = 0 THEN 0
                               ELSE (slope * 100 * 1000) \div y_mean
             IN  Clamp01(normalized + 5000)

\* MomentumAgent._score_volume (placeholder)
ScoreVolume(volume) == 6000

\* the default period of _calculate_rsi
RsiPeriod == 14

\* MomentumAgent._calculate_rsi, times 100
CalculateRsi(prices, period) ==
    IF Len(prices) < period + 1 THEN 5000
    \* no changes: sum(gains) / len(gains) divides by zero, the except returns 50
    ELSE IF Len(prices) <= 1 THEN 5000
    ELSE LET m      == Len(prices) - 1
             change == [i \in 1..m |-> prices[i + 1] - prices[i]]
             gains  == SumSeq([i \in 1..m |-> IF change[i] > 0 THEN change[i] ELSE 0], m)
             losses == SumSeq([i \in 1..m |-> IF change[i] < 0 THEN -change[i] ELSE 0], m)
         IN  IF losses = 0 THEN 10000
             ELSE LET rs == (gains * 1000) \div losses
                  IN  10000 - (10000 * 1000) \div (1000 + rs)

\* MomentumAgent._score_rsi, on an RSI times 100
ScoreRsi(rsi) ==
    IF 4000 <= rsi /\ rsi <= 6000 THEN 10000
    ELSE IF rsi > 7000 THEN Max(0, 10000 - ((rsi - 7000) * 100) \div 30)
    ELSE IF rsi < 3000 THEN Max(0, (rsi * 100) \div 30)
    ELSE 8000

\* prices[-k:]
LastN(prices, k) ==
    IF Len(prices) <= k THEN prices
    ELSE SubSeq(prices, Len(prices) - k + 1, Len(prices))

\* C29 mutant: a momentum score whose RSI sees the last 15 prices
MomentumScoreWithFifteenPrices(asset_data) ==
    IF Raises(asset_data, {"returns_1y"}) THEN Neutral ELSE
    LET prices      == Get(asset_data, "historical_prices", <<>>)
        returns_s   == (ScoreReturns(Get(asset_data, "returns_1y", 0)) * 4) \div 10
        trend_s     == IF Len(prices) >= 50
                          THEN (CalculateTrendStrength(prices) * 3) \div 10
                          ELSE (Neutral * 3) \div 10
        volume_s    == (ScoreVolume(Get(asset_data, "volume", 0)) * 15) \div 100
        rsi_s       == IF Len(prices) >= 14
                          THEN (ScoreRsi(CalculateRsi(LastN(prices, 15), RsiPeriod)) * 15) \div 100
                          ELSE (Neutral * 15) \div 100
    IN  Clamp01(returns_s + trend_s + volume_s + rsi_s)

\* MomentumAgent.score; the except branch returns 0.5
MomentumScore(asset_data) ==
    IF Raises(asset_data, {"returns_1y"}) THEN Neutral ELSE
    LET prices      == Get(asset_data, "historical_prices", <<>>)
        returns_s   == (ScoreReturns(Get(asset_data, "returns_1y", 0)) * 4) \div 10
        trend_s     == IF Len(prices) >= 50
                          THEN (CalculateTrendStrength(prices) * 3) \div 10
                          ELSE (Neutral * 3) \div 10
        volume_s    == (ScoreVolume(Get(asset_data, "volume", 0)) * 15) \div 100
        rsi_s       == IF Len(prices) >= 14
                          THEN (ScoreRsi(CalculateRsi(LastN(prices, 14), RsiPeriod)) * 15) \div 100
                          ELSE (Neutral * 15) \div 100
    IN  Clamp01(returns_s + trend_s + volume_s + rsi_s)

\* QualityAgent._score_market_cap, market_cap in units of 1e10
ScoreMarketCap(market_cap) ==
    IF market_cap > 100 THEN 10000
    ELSE IF market_cap > 50 THEN 9000
    ELSE IF market_cap > 10 THEN 7000
    ELSE IF market_cap > 5 THEN 6000
    ELSE 4000

\* QualityAgent._score_sector
ScoreSector(sector) ==
    CASE sector = "Technology"  -> 9000
      [] sector = "Finance"     -> 8000
      [] sector = "Healthcare"  -> 8500
      [] sector = "Consumer"    -> 7500
      [] sector = "Energy"      -> 7000
      [] sector = "Industrials" -> 7000
      [] sector = "Utilities"   -> 6000
      [] OTHER                  -> 6500

\* QualityAgent.score; the except branch returns 0.5
QualityScore(asset_data) ==
    IF Raises(asset_data, {"market_cap", "returns_1y", "volatility"}) THEN Neutral ELSE
    LET cap_s    == (ScoreMarketCap(Get(asset_data, "market_cap", 0)) * 3) \div 10
        sector_s == (ScoreSector(Get(asset_data, "sector", "Unknown")) * 25) \div 100
        \* min(max(returns_1y / 30, 0), 1)
        growth   == Min(Max((Get(asset_data, "returns_1y", 0) * 10000) \div 30, 0), 10000)
        \* max(0, 1 - volatility / 40)
        stable   == Max(0, 10000 - (Get(asset_data, "volatility", 20) * 10000) \div 40)
    IN  Clamp01(cap_s + sector_s + (growth * 25) \div 100 + (stable * 2) \div 10)

RECURSIVE PeakSeq(_, _, _, _)
\* the peaks the loop of _calculate_max_drawdown holds at positions lo..hi,
\* entered with the peak `peak`: each higher price raises it (by halves)
PeakSeq(prices, lo, hi, peak) ==
    IF lo > hi THEN <<>>
    ELSE IF lo = hi THEN <<IF prices[lo] > peak THEN prices[lo] ELSE peak>>
    ELSE LET mid  == (lo + hi) \div 2
             left == PeakSeq(prices, lo, mid, peak)
         IN  left \o PeakSeq(prices, mid + 1, hi, left[Len(left)])

\* C21 mutant: a drawdown measured from the first price, the peak never raised
CalculateMaxDrawdownFromFirstPrice(prices) ==
    IF Len(prices) < 2 THEN 0
    ELSE LET n   == Len(prices)
             dds == {0} \cup {((prices[i] - prices[1]) * 10000) \div prices[1] : i \in 1..n}
         IN  IF prices[1] = 0 THEN 0
             ELSE CHOOSE x \in dds : \A y \in dds : x <= y

\* RiskAgent._calculate_max_drawdown, in hundredths of a percent: the lowest
\* dd = ((price - peak) / peak) * 100 of the loop, starting from max_dd = 0;
\* a peak of 0 divides by zero and the bare except returns 0
CalculateMaxDrawdown(prices) ==
    IF Len(prices) < 2 THEN 0
    ELSE LET n     == Len(prices)
             peaks == PeakSeq(prices, 1, n, prices[1])
             dds   == {0} \cup {((prices[i] - peaks[i]) * 10000) \div peaks[i] : i \in 1..n}
         IN  IF \E i \in 1..n : peaks[i] = 0 THEN 0
             ELSE CHOOSE x \in dds : \A y \in dds : x <= y

\* the division by zero of _calculate_max_drawdown: a peak of 0
DrawdownRaises(prices) ==
    /\ Len(prices) >= 2
    /\ LET peaks == PeakSeq(prices, 1, Len(prices), prices[1])
       IN  \E i \in 1..Len(prices) : peaks[i] = 0

\* RiskAgent.score; the except branch returns 0.5
RiskScore(asset_data) ==
    IF Raises(asset_data, {"volatility"}) THEN Neutral ELSE
    LET volatility == Get(asset_data, "volatility", 20)
        \* max(0, 1 - volatility / 50)
        vol_score  == Max(0, 10000 - (volatility * 10000) \div 50)
        \* estimated_beta = volatility / 20; max(0, 1 - abs(beta - 1))
        beta       == (volatility * 10000) \div 20
        beta_score == Max(0, 10000 - Abs(beta - 10000))
        prices     == Get(asset_data, "historical_prices", <<>>)
        \* max(0, 1 - abs(max_drawdown) / 30)
        dd_part    == IF Len(prices) >= 30
                         THEN (Max(0, 10000 - (Abs(CalculateMaxDrawdown(prices)) * 10) \div 3) * 3) \div 10
                         ELSE (Neutral * 3) \div 10
    IN  Clamp01((vol_score * 4) \div 10 + (beta_score * 3) \div 10 + dd_part)

\* MutualFundScoringAgent.score: returns_3y in %, sharpe_ratio times 100,
\* consistency times 10000, volatility in %
MutualFundAgentScore(mf_data) ==
    IF Raises(mf_data, {"returns_3y", "sharpe_ratio", "consistency", "volatility"})
        THEN Neutral ELSE
    LET returns_score == Min((Get(mf_data, "returns_3y", 0) * 10000) \div 20, 10000)
        sharpe_score  == Min((Get(mf_data, "sharpe_ratio", 0) * 100) \div 2, 10000)
        consistency   == Get(mf_data, "consistency", 5000)
        vol_score     == Max(0, 10000 - (Get(mf_data, "volatility", 15) * 10000) \div 30)
    IN  Clamp01((returns_score * 35) \div 100 + (sharpe_score * 30) \div 100
                + (consistency * 20) \div 100 + (vol_score * 15) \div 100)

\* InvestmentAgent._score_mutual_fund (agent.py): the score the pipeline
\* stores in asset_scores['mutual_funds']
ScoreMutualFund(mf_data) ==
    IF Raises(mf_data, {"returns_3y", "consistency", "sharpe_ratio"}) THEN Neutral ELSE
    LET returns_part == Min((Get(mf_data, "returns_3y", 0) * 10000) \div 20, 4000)
        consistency  == Get(mf_data, "consistency", 5000)
        sharpe_part  == Min((Get(mf_data, "sharpe_ratio", 0) * 100) \div 3, 3000)
    IN  Min(returns_part + (consistency * 3) \div 10 + sharpe_part, 10000)

-----------------------------------------------------------------------------
(* Inputs of the portfolio pipeline *)

MaxIncome == 2
MaxAmountUnits == 2
MaxStocks == 8
MaxFunds == 4

\* "Growth" stands for any key the tables do not know
RiskProfiles == {"Conservative", "Balanced", "Aggressive", "Growth"}

\* user profiles: with and without the risk_profile and income keys
UserProfiles ==
    {[risk_profile |-> r, income |-> i] : r \in RiskProfiles, i \in 0..MaxIncome}
    \cup {[risk_profile |-> r] : r \in RiskProfiles}
    \cup {[income |-> i] : i \in 0..MaxIncome}

\* budgets for which the 60/40 and per-instrument splits are whole numbers
InvestmentAmounts == {70 * k : k \in 0..MaxAmountUnits}

\* the i-th scored stock / fund of the universe; scores repeat, so ties occur
StockItem(i) == [id |-> i, score |-> 2000 + 1000 * ((i * 3) % 5), well_formed |-> TRUE]
FundItem(i)  == [id |-> i, score |-> 3000 + 2000 * (i % 3)]

\* asset-score mappings: n stocks and m funds, a mapping without the two keys,
\* and a mapping with a stock entry that lacks 'aggregate_score'
ScoreMappings ==
    {[stocks |-> [i \in 1..n |-> StockItem(i)],
      mutual_funds |-> [i \in 1..m |-> FundItem(i)]] :
        n \in 0..MaxStocks, m \in 0..MaxFunds}
    \cup {EmptyDict}
    \cup {[stocks |-> <<StockItem(1), [id |-> 2, score |-> 0, well_formed |-> FALSE]>>,
           mutual_funds |-> <<FundItem(1)>>]}

\* portfolios a caller hands to validate_and_adjust directly
SuppliedEquity == {0, 30, 40, 41, 55, 59, 60, 61, 85}
SuppliedDebt == {0, 20, 45}
SuppliedDiversification == {0, 5000}
\* the Cash share of the fixed tables, and a larger one
SuppliedCash == {5, 15}

SuppliedPortfolio(e, d, cash, amount, div) ==
    LET strategic  == [Equity |-> e, Debt |-> d, Gold |-> 10, Cash |-> cash]
        allocation == [c \in DOMAIN strategic |-> amount * strategic[c]]
    IN  [allocation            |-> allocation,
         strategic_percentages |-> strategic,
         instruments           |-> NoInstruments,
         total_amount          |-> amount,
         risk_profile          |-> "Balanced",
         expected_return       |-> EstimateReturn(strategic),
         expected_risk         |-> EstimateRisk(strategic),
         diversification_score |-> div]

-----------------------------------------------------------------------------
(* The pipeline of InvestmentAgent._construct_portfolio *)

\* the components a specification does not exercise stay as constructed
IdlePortfolio ==
    /\ user_profile = EmptyDict
    /\ construct_profile = EmptyDict
    /\ asset_scores = EmptyDict
    /\ investment_amount = 0
    /\ portfolio = EmptyDict
    /\ input_portfolio = EmptyDict
    /\ pc = "idle"

IdleScoring ==
    /\ scorer_input = EmptyDict
    /\ sub_score = [agent |-> "none", value |-> 0]
    /\ spc = "off"

IdleRanking ==
    /\ scores_a = EmptyDict
    /\ scores_b = EmptyDict
    /\ ranked_a = EmptyDict
    /\ ranked_b = EmptyDict
    /\ kpc = "off"

IdleRebalancing ==
    /\ current_portfolio = EmptyDict
    /\ target_allocation = EmptyDict
    /\ analysis = EmptyDict
    /\ rpc = "off"

IdleMetrics ==
    /\ metric_prices = <<>>
    /\ metric_period = 0
    /\ metric_arg = 0
    /\ metric_out = [metric |-> "none", value |-> 0]
    /\ mpc = "off"

IdleAggregate ==
    /\ market_data = EmptyDict
    /\ scoring_profile = EmptyDict
    /\ weights_out = EmptyDict
    /\ scores_out = EmptyDict
    /\ confidence_out = 0
    /\ apc = "off"

IdleProfiling ==
    /\ profile_args = EmptyDict
    /\ created_profile = EmptyDict
    /\ profile_portfolio = EmptyDict
    /\ upc = "off"

\* no call of fetch_stock_data yet
NoFetch == [symbol |-> "", called_at |-> 0, data |-> EmptyDict, cache_hit |-> FALSE]

IdleCache ==
    /\ clock = 0
    /\ cache = EmptyDict
    /\ cache_before = EmptyDict
    /\ fetch_out = NoFetch
    /\ calls = -1
    /\ advances = 0

InitPortfolio ==
    /\ user_profile \in UserProfiles
    /\ construct_profile = EmptyDict
    /\ asset_scores = EmptyDict
    /\ investment_amount = 0
    /\ portfolio = EmptyDict
    /\ input_portfolio = EmptyDict
    /\ pc = "start"
    /\ IdleScoring /\ IdleRanking /\ IdleRebalancing /\ IdleMetrics /\ IdleAggregate
    /\ IdleProfiling /\ IdleCache

\* the pipeline hands construct and validate_and_adjust the same profile; a
\* caller of the two public methods may validate under another profile
OtherProfiles ==
    {[risk_profile |-> r, income |-> 0] : r \in {"Conservative", "Aggressive"}}

\* portfolio_constructor.construct(user_profile, asset_scores, investment_amount)
Construct ==
    /\ pc = "start"
    /\ \E up \in {user_profile} \cup OtherProfiles,
          scores \in ScoreMappings, amount \in InvestmentAmounts :
          /\ construct_profile' = up
          /\ asset_scores' = scores
          /\ investment_amount' = amount
          /\ portfolio' = ConstructPortfolio(up, scores, amount)
    /\ pc' = "constructed"
    /\ UNCHANGED <<user_profile, input_portfolio, notPortfolio>>

\* a caller of the public validate_and_adjust brings a portfolio of its own
Supply ==
    /\ pc = "start"
    /\ \E e \in SuppliedEquity, d \in SuppliedDebt, cash \in SuppliedCash,
          amount \in InvestmentAmounts, div \in SuppliedDiversification :
          /\ investment_amount' = amount
          /\ portfolio' = SuppliedPortfolio(e, d, cash, amount, div)
    /\ pc' = "supplied"
    /\ UNCHANGED <<user_profile, construct_profile, asset_scores, input_portfolio, notPortfolio>>

\* meta_controller.validate_and_adjust(portfolio, user_profile)
Validate ==
    /\ pc \in {"constructed", "supplied"}
    /\ input_portfolio' = portfolio
    /\ portfolio' = ValidateAndAdjust(portfolio, user_profile)
    /\ pc' = IF pc = "constructed" THEN "validated" ELSE "checked"
    /\ UNCHANGED <<user_profile, construct_profile, asset_scores,
                   investment_amount, notPortfolio>>

\* validate_and_adjust applied once more, to the portfolio it returned
Revalidate ==
    /\ pc \in {"validated", "checked"}
    /\ input_portfolio' = portfolio
    /\ portfolio' = ValidateAndAdjust(portfolio, user_profile)
    /\ pc' = "revalidated"
    /\ UNCHANGED <<user_profile, construct_profile, asset_scores,
                   investment_amount, notPortfolio>>

NextPortfolio == Construct \/ Supply \/ Validate \/ Revalidate

Spec == InitPortfolio /\ [][NextPortfolio]_vars

-----------------------------------------------------------------------------
(* Scoring one record: the calls _score_assets makes for a stock or a fund *)

\* a dict holding the keys `present` of the record `full`
Restrict(full, present) == [k \in present |-> full[k]]

PriceKinds == {"flat", "up", "down", "zigzag", "crash", "zero"}

\* a price history of n points
PriceSeq(kind, n) ==
    [i \in 1..n |->
        CASE kind = "flat"   -> 10
          [] kind = "up"     -> 10 + i
          [] kind = "down"   -> 70 - i
          [] kind = "zigzag" -> 10 + 5 * (i % 2)
          [] kind = "crash"  -> IF 2 * i <= n THEN 40 ELSE 10
          [] OTHER           -> 0]

\* lengths on both sides of the 14-, 30- and 50-point thresholds of the scorers
HistoryLengths == {0, 13, 14, 29, 30, 49, 50}

Histories == {PriceSeq(k, n) : k \in PriceKinds, n \in HistoryLengths}

Sectors == {"Technology", "Energy", "Mining"}

\* the fields each scorer reads, each present or missing
Records(full_records) ==
    UNION {{Restrict(full, present) : present \in SUBSET DOMAIN full} :
              full \in full_records}

ValuationInputs ==
    Records([pe_ratio : {-5, 10, 90}, pb_ratio : {-1, 1, 9},
             dividend_yield : {-300, 200, 900}, sector : Sectors])

MomentumInputs ==
    Records([returns_1y : {-60, 10, 60}, historical_prices : Histories])

QualityInputs ==
    Records([market_cap : {3, 70, 500}, sector : Sectors,
             returns_1y : {-60, 10, 60}, volatility : {-40, 20, 200}])

RiskInputs ==
    Records([volatility : {-40, 20, 200}, historical_prices : Histories])

FundInputs ==
    Records([returns_3y : {-40, 0, 10, 30}, consistency : {0, 5000, 10000},
             sharpe_ratio : {-300, 0, 100, 500}, volatility : {0, 15, 45}])

InitScoring ==
    /\ scorer_input = EmptyDict
    /\ sub_score = [agent |-> "none", value |-> 0]
    /\ spc = "idle"
    /\ IdlePortfolio /\ IdleRanking /\ IdleRebalancing /\ IdleMetrics /\ IdleAggregate
    /\ IdleProfiling /\ IdleCache

\* self.valuation_agent.score(stock_data)
ScoreValuation ==
    /\ spc = "idle"
    /\ \E r \in ValuationInputs :
          /\ scorer_input' = r
          /\ sub_score' = [agent |-> "valuation", value |-> ValuationScore(r)]
    /\ spc' = "scored"
    /\ UNCHANGED notScoring

\* self.momentum_agent.score(stock_data)
ScoreMomentum ==
    /\ spc = "idle"
    /\ \E r \in MomentumInputs :
          /\ scorer_input' = r
          /\ sub_score' = [agent |-> "momentum", value |-> MomentumScore(r)]
    /\ spc' = "scored"
    /\ UNCHANGED notScoring

\* self.quality_agent.score(stock_data)
ScoreQuality ==
    /\ spc = "idle"
    /\ \E r \in QualityInputs :
          /\ scorer_input' = r
          /\ sub_score' = [agent |-> "quality", value |-> QualityScore(r)]
    /\ spc' = "scored"
    /\ UNCHANGED notScoring

\* self.risk_agent.score(stock_data)
ScoreRisk ==
    /\ spc = "idle"
    /\ \E r \in RiskInputs :
          /\ scorer_input' = r
          /\ sub_score' = [agent |-> "risk", value |-> RiskScore(r)]
    /\ spc' = "scored"
    /\ UNCHANGED notScoring

\* self._score_mutual_fund(mf_data), stored in scores['mutual_funds'][code]
ScoreFundPipeline ==
    /\ spc = "idle"
    /\ \E r \in FundInputs :
          /\ scorer_input' = r
          /\ sub_score' = [agent |-> "fund_pipeline", value |-> ScoreMutualFund(r)]
    /\ spc' = "scored"
    /\ UNCHANGED notScoring

\* MutualFundScoringAgent().score(mf_data)
ScoreFundAgent ==
    /\ spc = "idle"
    /\ \E r \in FundInputs :
          /\ scorer_input' = r
          /\ sub_score' = [agent |-> "fund_agent", value |-> MutualFundAgentScore(r)]
    /\ spc' = "scored"
    /\ UNCHANGED notScoring

NextScoring ==
    \/ ScoreValuation \/ ScoreMomentum \/ ScoreQuality \/ ScoreRisk
    \/ ScoreFundPipeline \/ ScoreFundAgent

SpecScoring == InitScoring /\ [][NextScoring]_vars

-----------------------------------------------------------------------------
(* Claims about the portfolio pipeline (checked under Spec) *)

KnownProfiles == {"Conservative", "Balanced", "Aggressive"}

\* C1: for each of the three risk profiles and every investment amount, the
\* portfolio that construct produces, handed to validate_and_adjust with the
\* same user profile, comes back with validation.passed = True and no issues.
C1_RoundTripPasses ==
    (/\ pc = "validated"
     /\ construct_profile = user_profile
     /\ "risk_profile" \in DOMAIN user_profile
     /\ user_profile["risk_profile"] \in KnownProfiles)
    => /\ "validation" \in DOMAIN portfolio
       /\ portfolio["validation"].passed
       /\ portfolio["validation"].issues = <<>>

\* the equity-bound case of Check 2, on the portfolio handed to the validator
EquityOutOfBounds ==
    /\ pc \in {"validated", "checked"}
    /\ "risk_profile" \in DOMAIN user_profile
    /\ "strategic_percentages" \in DOMAIN input_portfolio
    /\ \/ /\ user_profile["risk_profile"] = "Conservative"
          /\ input_portfolio["strategic_percentages"]["Equity"] > 40
       \/ /\ user_profile["risk_profile"] = "Aggressive"
          /\ input_portfolio["strategic_percentages"]["Equity"] < 60

\* C2: a Conservative profile with Equity above 40, or an Aggressive profile
\* with Equity below 60, gets back exactly the profile's fixed table
\* (30/50/15/5, 70/20/5/5), amounts of total_amount x percentage / 100,
\* expected_return and expected_risk of that table (8.5 and sqrt(38.6525),
\* 10.4 and sqrt(160.1225)), and validation.passed = False.
C2_ReallocationToFixedTable ==
    EquityOutOfBounds =>
        LET cons   == user_profile["risk_profile"] = "Conservative"
            table  == IF cons THEN [Equity |-> 30, Debt |-> 50, Gold |-> 15, Cash |-> 5]
                              ELSE [Equity |-> 70, Debt |-> 20, Gold |-> 5, Cash |-> 5]
            ret    == IF cons THEN 850 ELSE 1040
            risksq == IF cons THEN 386525 ELSE 1601225
            risk   == portfolio["expected_risk"]
        IN  /\ portfolio["strategic_percentages"] = table
            /\ DOMAIN portfolio["allocation"] = Classes
            /\ \A c \in Classes :
                  portfolio["allocation"][c] = portfolio["total_amount"] * table[c]
            /\ portfolio["expected_return"] = ret
            /\ risk * risk <= risksq /\ risksq < (risk + 1) * (risk + 1)
            /\ portfolio["validation"].passed = FALSE

\* C2 witness: the spec's example, Conservative with Equity = 55, reallocated
C2_Witness ==
    /\ EquityOutOfBounds
    /\ user_profile["risk_profile"] = "Conservative"
    /\ input_portfolio["strategic_percentages"]["Equity"] = 55
    /\ input_portfolio["total_amount"] > 0
    /\ portfolio["strategic_percentages"]["Equity"] = 30

\* C5: construct followed by validate_and_adjust returns, for every user
\* profile (one without a risk_profile key included) and every asset-score
\* mapping, a portfolio that holds allocation, strategic_percentages,
\* total_amount and a validation report with passed, issues, adjustments_made.
C5_StructurallyValid ==
    (pc = "validated" /\ construct_profile = user_profile) =>
        /\ {"allocation", "strategic_percentages", "total_amount", "validation"}
              \subseteq DOMAIN portfolio
        /\ {"passed", "issues", "adjustments_made"}
              \subseteq DOMAIN portfolio["validation"]

\* C9: the diversification_score stored in a constructed portfolio (amounts
\* non-negative) lies in [0, 1].
C9_DiversificationInUnitInterval ==
    (pc = "constructed" /\ "diversification_score" \in DOMAIN portfolio)
    => /\ portfolio["diversification_score"] >= 0
       /\ portfolio["diversification_score"] <= 10000

\* C12: for every risk-profile key the strategic allocation has exactly the
\* classes Equity, Debt, Gold, Cash with percentages summing to 100, and a key
\* the table does not know gets the Balanced table 50/35/10/5.
C12_StrategicAllocationSumsTo100 ==
    (pc = "constructed" /\ "risk_profile" \in DOMAIN construct_profile) =>
        LET strategic == portfolio["strategic_percentages"]
        IN  /\ DOMAIN strategic = {"Equity", "Debt", "Gold", "Cash"}
            /\ strategic["Equity"] + strategic["Debt"]
                  + strategic["Gold"] + strategic["Cash"] = 100
            /\ construct_profile["risk_profile"] \notin KnownProfiles
                  => strategic = [Equity |-> 50, Debt |-> 35, Gold |-> 10, Cash |-> 5]

\* C12 witness: a portfolio constructed for a key the table does not know
C12_Witness ==
    /\ pc = "constructed"
    /\ "risk_profile" \in DOMAIN construct_profile
    /\ construct_profile["risk_profile"] = "Growth"
    /\ portfolio["strategic_percentages"]["Equity"] = 50

\* Check 2 did reallocate: the percentages came back different
Reallocated ==
    /\ pc \in {"validated", "checked"}
    /\ "strategic_percentages" \in DOMAIN portfolio
    /\ Get(input_portfolio, "strategic_percentages", EmptyDict)
          # portfolio["strategic_percentages"]

C14_ReportFlags ==
    (pc \in {"validated", "checked"} /\ "validation" \in DOMAIN portfolio) =>
        LET report == portfolio["validation"]
        IN  /\ report.passed <=> report.issues = <<>>
            /\ report.adjustments_made <=> report.issues # <<>>
            /\ report.passed # report.adjustments_made

\* C14 witness: a report with an issue and no reallocation
C14_Witness ==
    /\ pc \in {"validated", "checked"}
    /\ "validation" \in DOMAIN portfolio
    /\ ~Reallocated
    /\ portfolio["validation"].issues # <<>>
    /\ portfolio["validation"].adjustments_made
    /\ ~portfolio["validation"].passed

\* the key k holds the same value before and after (or is absent in both)
SameField(k) ==
    /\ k \in DOMAIN portfolio <=> k \in DOMAIN input_portfolio
    /\ k \in DOMAIN portfolio => portfolio[k] = input_portfolio[k]

\* the Equity percentage as Check 2 reads it off the portfolio it was handed
EquityRead == Get(Get(input_portfolio, "strategic_percentages", EmptyDict), "Equity", 0)

\* C15: validate_and_adjust changes allocation, strategic_percentages,
\* expected_return and expected_risk only for a Conservative profile with
\* Equity above 40 or an Aggressive profile with Equity below 60; in every
\* other case it only attaches the report; total_amount, instruments and
\* diversification_score are never changed.
C15_FrameOfValidate ==
    (pc \in {"validated", "checked"} /\ "risk_profile" \in DOMAIN user_profile) =>
        LET risk_profile == user_profile["risk_profile"]
            out_of_bounds ==
                \/ risk_profile = "Conservative" /\ EquityRead > 40
                \/ risk_profile = "Aggressive" /\ EquityRead < 60
        IN  /\ \A k \in {"total_amount", "instruments", "diversification_score"} :
                  SameField(k)
            /\ ~out_of_bounds =>
                  /\ \A k \in {"allocation", "strategic_percentages",
                               "expected_return", "expected_risk"} : SameField(k)
                  /\ DOMAIN portfolio = DOMAIN input_portfolio \cup {"validation"}
                  /\ \A k \in DOMAIN input_portfolio : portfolio[k] = input_portfolio[k]

\* C15 witness: a Balanced profile and a portfolio that fails the sum check
\* and the diversification check comes back with issues and nothing changed
C15_Witness ==
    /\ pc = "checked"
    /\ "risk_profile" \in DOMAIN user_profile
    /\ user_profile["risk_profile"] = "Balanced"
    /\ EquityRead = 85
    /\ Len(portfolio["validation"].issues) >= 2
    /\ portfolio["strategic_percentages"] = input_portfolio["strategic_percentages"]
    /\ portfolio["allocation"] = input_portfolio["allocation"]

\* the score mapping handed to construct has an aggregate_score in every entry
WellFormedScores ==
    \A i \in 1..Len(Get(asset_scores, "stocks", <<>>)) :
        asset_scores["stocks"][i].well_formed

\* the entries `chosen` are `count` distinct items of `scored`, each with its
\* own score and the share `bucket` / count of the amount, and no item left
\* out scores higher than a chosen one
TopChoice(chosen, scored, count, bucket_tenths) ==
    /\ Len(chosen) = count
    /\ \A i \in 1..Len(chosen) :
          /\ \E j \in 1..Len(scored) :
                scored[j].id = chosen[i].id /\ scored[j].score = chosen[i].score
          /\ \A k \in 1..Len(chosen) : chosen[k].id = chosen[i].id => k = i
          /\ chosen[i].amount * 10 * count <= bucket_tenths
          /\ bucket_tenths < (chosen[i].amount + 1) * 10 * count
          /\ \A j \in 1..Len(scored) :
                (\A k \in 1..Len(chosen) : chosen[k].id # scored[j].id)
                    => scored[j].score <= chosen[i].score

C25_EmergencyCheckOnReturnedCash ==
    (EquityOutOfBounds /\ "validation" \in DOMAIN portfolio) =>
        LET issues == portfolio["validation"].issues
            income == Get(user_profile, "income", 0)
        IN  (\E i \in 1..Len(issues) : issues[i] = IssueCash)
                <=> portfolio["allocation"]["Cash"] < 3 * income * 100

\* C25, supporting: Check 4 compares 3 x income with the Cash amount of the
\* allocation that was handed in
C25_EmergencyCheckOnInputCash ==
    (EquityOutOfBounds /\ "validation" \in DOMAIN portfolio) =>
        LET issues == portfolio["validation"].issues
            income == Get(user_profile, "income", 0)
        IN  (\E i \in 1..Len(issues) : issues[i] = IssueCash)
                <=> Get(Get(input_portfolio, "allocation", EmptyDict), "Cash", 0)
                        < 3 * income * 100

\* C26: validate_and_adjust is idempotent on the allocation: applied a
\* second time to its own output it leaves strategic_percentages,
\* allocation, expected_return and expected_risk as they were after the
\* first application, and the second application records no equity-bound
\* issue.
C26_ValidateIsIdempotent ==
    pc = "revalidated" =>
        /\ \A k \in {"strategic_percentages", "allocation",
                     "expected_return", "expected_risk"} : SameField(k)
        /\ "validation" \in DOMAIN portfolio =>
              \A i \in 1..Len(portfolio["validation"].issues) :
                  portfolio["validation"].issues[i] \notin {IssueHigh, IssueLow}

\* C26 witness: the first application reallocated a portfolio of a positive
\* budget, the second one was applied to the result
C26_Witness ==
    /\ pc = "revalidated"
    /\ "validation" \in DOMAIN input_portfolio
    /\ \E i \in 1..Len(input_portfolio["validation"].issues) :
          input_portfolio["validation"].issues[i] = IssueHigh
    /\ portfolio["total_amount"] > 0
    /\ portfolio["strategic_percentages"]["Equity"] = 30
    /\ "validation" \in DOMAIN portfolio

\* the sum of the amounts of a list of instruments
InstrumentAmounts(instruments) ==
    SumSeq([i \in 1..Len(instruments) |-> instruments[i].amount], Len(instruments))

\* the instruments of portfolio p fit the per-class amounts `allocation`; an
\* even split is cut to a whole number of hundredths for each instrument
InstrumentsFit(p, allocation) ==
    LET ins      == p["instruments"]
        equities == InstrumentAmounts(ins.stocks) + InstrumentAmounts(ins.mutual_funds)
        parts    == Len(ins.stocks) + Len(ins.mutual_funds)
    IN  /\ (Len(ins.stocks) >= 1 /\ Len(ins.mutual_funds) >= 1)
              => /\ equities <= allocation["Equity"]
                 /\ equities >= allocation["Equity"] - parts
        /\ InstrumentAmounts(ins.debt) = allocation["Debt"]
        /\ InstrumentAmounts(ins.etfs) = allocation["Gold"]

\* C24: in every portfolio validate_and_adjust returns (after a
\* reallocation too) the selected instruments are consistent with the
\* per-class allocation the portfolio carries: with at least one stock and
\* one fund selected the stock and fund amounts add up to the Equity amount,
\* the debt instrument amounts to the Debt amount, and the Gold ETF amount
\* is the Gold amount.
C24_InstrumentsMatchAllocation ==
    (/\ pc = "validated" /\ WellFormedScores
     /\ {"instruments", "allocation"} \subseteq DOMAIN portfolio)
    => InstrumentsFit(portfolio, portfolio["allocation"])

\* C24, supporting: the instruments fit the allocation the portfolio had
\* when it was handed to validate_and_adjust
C24_InstrumentsMatchInputAllocation ==
    (/\ pc = "validated" /\ WellFormedScores
     /\ {"instruments", "allocation"} \subseteq DOMAIN portfolio)
    => /\ portfolio["instruments"] = input_portfolio["instruments"]
       /\ InstrumentsFit(portfolio, input_portfolio["allocation"])

-----------------------------------------------------------------------------
(* Claims about the scorers (checked under SpecScoring) *)

StockAgents == {"valuation", "momentum", "quality", "risk"}

\* C3: for every asset record (any numeric pe_ratio, pb_ratio, dividend_yield,
\* returns_1y, volatility, market_cap, any sector, any price history, fields
\* missing or not), each sub-score returned by the Valuation, Momentum,
\* Quality and Risk agents lies in [0, 1].
C3_SubScoresInUnitInterval ==
    (spc = "scored" /\ sub_score.agent \in StockAgents)
    => (0 <= sub_score.value /\ sub_score.value <= 10000)

\* C3 witness: a valuation score that the final clamp cut down to 1.0
C3_Witness ==
    /\ spc = "scored"
    /\ sub_score.agent = "valuation"
    /\ ValuationScoreUnclamped(scorer_input) > 10000
    /\ sub_score.value = 10000

\* the momentum agent scored a record with a history of 14 prices or more
MomentumWithHistory ==
    /\ spc = "scored" /\ sub_score.agent = "momentum"
    /\ ~Raises(scorer_input, {"returns_1y"})
    /\ Len(Get(scorer_input, "historical_prices", <<>>)) >= 14

C10_FundScoresInUnitInterval ==
    (spc = "scored" /\ sub_score.agent \in {"fund_pipeline", "fund_agent"})
    => (0 <= sub_score.value /\ sub_score.value <= 10000)

-----------------------------------------------------------------------------
(* Ranking (portfolio_agents.py _select_instruments, agent.py              *)
(* _generate_recommendations)                                              *)

\* the identifiers of a ranked list
Ids(items) == [i \in 1..Len(items) |-> items[i].id]

\* the symbols / codes _select_instruments picked, in rank order
SelectedIds(scores, risk_profile) ==
    LET ins == SelectInstruments(scores, [Equity |-> 0], risk_profile)
    IN  [stocks       |-> [i \in 1..Len(ins.stocks) |-> ins.stocks[i].symbol],
         mutual_funds |-> [i \in 1..Len(ins.mutual_funds) |-> ins.mutual_funds[i].code]]

\* _generate_recommendations: sorted(...)[:5] of the stocks and of the funds
GenerateRecommendations(scores) ==
    [top_stocks       |-> Ids(Take(SortedByScore(Get(scores, "stocks", <<>>)), 5)),
     top_mutual_funds |-> Ids(Take(SortedByScore(Get(scores, "mutual_funds", <<>>)), 5))]

MaxRanked == 4

\* two score levels, so that equal scores occur
ScoreLevels == {4000, 7000}

\* the permutations of 1..n
Perms(n) == {f \in [1..n -> 1..n] : \A i, j \in 1..n : f[i] = f[j] => i = j}

\* the score mapping with items 1..n scored by sc, inserted in the order perm
Inserted(sc, perm) ==
    LET n == Len(sc)
    IN  [stocks       |-> [i \in 1..n |->
                             [id |-> perm[i], score |-> sc[perm[i]], well_formed |-> TRUE]],
         mutual_funds |-> [i \in 1..n |-> [id |-> perm[i], score |-> sc[perm[i]]]]]

Identity(n) == [i \in 1..n |-> i]

InitRanking ==
    /\ scores_a = EmptyDict
    /\ scores_b = EmptyDict
    /\ ranked_a = EmptyDict
    /\ ranked_b = EmptyDict
    /\ kpc = "idle"
    /\ IdlePortfolio /\ IdleScoring /\ IdleRebalancing /\ IdleMetrics /\ IdleAggregate
    /\ IdleProfiling /\ IdleCache

\* _select_instruments runs on the same scores inserted in two orders
RankSelect ==
    /\ kpc = "idle"
    /\ \E n \in 0..MaxRanked, r \in {"Conservative", "Balanced"} :
         \E sc \in [1..n -> ScoreLevels], perm \in Perms(n) :
            /\ scores_a' = Inserted(sc, Identity(n))
            /\ scores_b' = Inserted(sc, perm)
            /\ ranked_a' = SelectedIds(Inserted(sc, Identity(n)), r)
            /\ ranked_b' = SelectedIds(Inserted(sc, perm), r)
    /\ kpc' = "selected"
    /\ UNCHANGED notRanking

\* _generate_recommendations runs on the same scores inserted in two orders
RankRecommend ==
    /\ kpc = "idle"
    /\ \E n \in 0..MaxRanked :
         \E sc \in [1..n -> ScoreLevels], perm \in Perms(n) :
            /\ scores_a' = Inserted(sc, Identity(n))
            /\ scores_b' = Inserted(sc, perm)
            /\ ranked_a' = GenerateRecommendations(Inserted(sc, Identity(n)))
            /\ ranked_b' = GenerateRecommendations(Inserted(sc, perm))
    /\ kpc' = "recommended"
    /\ UNCHANGED notRanking

NextRanking == RankSelect \/ RankRecommend

SpecRanking == InitRanking /\ [][NextRanking]_vars

\* the two mappings hold the same (identifier, score) pairs
SameScoredItems ==
    /\ {scores_a.stocks[i] : i \in 1..Len(scores_a.stocks)}
          = {scores_b.stocks[i] : i \in 1..Len(scores_b.stocks)}
    /\ {scores_a.mutual_funds[i] : i \in 1..Len(scores_a.mutual_funds)}
          = {scores_b.mutual_funds[i] : i \in 1..Len(scores_b.mutual_funds)}

\* C4: the top-K stock and top-3 fund selection depend on the set of
\* (identifier, score) pairs only: two insertion orders of the same scored
\* items, equal scores included, give the same ranked list of identifiers
\* from _select_instruments and from _generate_recommendations.
C4_RankingIgnoresInsertionOrder ==
    (kpc \in {"selected", "recommended"} /\ SameScoredItems)
    => ranked_a = ranked_b

-----------------------------------------------------------------------------
(* RebalancingAgent (portfolio_agents.py).  A drift is the exact fraction  *)
(* num / den of percentage points; plan amounts are times 100 and the      *)
(* estimated cost is times 100000.                                         *)

\* self.drift_threshold * 100
DriftThresholdPct == 10

\* C6 mutant: a threshold that a drift of exactly 10 points also crosses
ExceedsOrReachesThreshold(drift) == drift.num >= DriftThresholdPct * drift.den

\* drift > self.drift_threshold * 100
ExceedsThreshold(drift) == drift.num > DriftThresholdPct * drift.den

\* the classes in the order the target allocation lists them (dict order)
ClassOrder == <<"Equity", "Debt", "Gold", "Cash">>

KeysInOrder(d) == SelectSeq(ClassOrder, LAMBDA c : c \in DOMAIN d)

\* abs(current_pct - target_pct), current_pct = current / total * 100 when
\* the total is positive and 0 otherwise
Drift(current, target, c) ==
    LET current_total  == SumValues(current)
        current_amount == Get(current, c, 0)
    IN  IF current_total > 0
            THEN [num |-> Abs(current_amount * 100 - target[c] * current_total),
                  den |-> current_total]
            ELSE [num |-> Abs(0 - target[c]), den |-> 1]

RECURSIVE PlanActions(_, _, _, _, _)
\* the buy (side = "buy") or sell actions of the loop over drifts.items()
PlanActions(current, target, drifts, order, side) ==
    IF order = <<>> THEN <<>>
    ELSE LET c              == Head(order)
             current_total  == SumValues(current)
             target_amount  == current_total * target[c]
             current_amount == Get(current, c, 0) * 100
             difference     == target_amount - current_amount
             rest           == PlanActions(current, target, drifts, Tail(order), side)
         IN  IF ExceedsThreshold(drifts[c]) /\ (side = "buy") = (difference > 0)
                 THEN <<[asset_class |-> c, amount |-> Abs(difference)]>> \o rest
                 ELSE rest

RECURSIVE SumAmounts(_)
\* sum(item['amount'] for item in actions)
SumAmounts(actions) ==
    IF actions = <<>> THEN 0 ELSE Head(actions).amount + SumAmounts(Tail(actions))

\* C7 mutant: a cost charged on both sides of the plan
GenerateRebalancingPlanBothSides(current, target, drifts) ==
    LET buy  == PlanActions(current, target, drifts, KeysInOrder(drifts), "buy")
        sell == PlanActions(current, target, drifts, KeysInOrder(drifts), "sell")
    IN  [sell |-> sell, buy |-> buy,
         estimated_cost |-> SumAmounts(buy) + SumAmounts(sell)]

\* _generate_rebalancing_plan: total_rebalancing * 0.001 over the buy side
GenerateRebalancingPlan(current, target, drifts) ==
    LET buy  == PlanActions(current, target, drifts, KeysInOrder(drifts), "buy")
        sell == PlanActions(current, target, drifts, KeysInOrder(drifts), "sell")
    IN  [sell |-> sell, buy |-> buy, estimated_cost |-> SumAmounts(buy)]

\* analyze_rebalancing_need; recommendation is <<>> for None, <<plan>> otherwise
AnalyzeRebalancingNeed(current, target) ==
    LET drifts == [c \in DOMAIN target |-> Drift(current, target, c)]
        needed == \E c \in DOMAIN target : ExceedsThreshold(drifts[c])
        \* max(drifts.values()): all drifts share one denominator
        largest == CHOOSE d \in {drifts[c] : c \in DOMAIN target} :
                      \A c \in DOMAIN target : d.num >= drifts[c].num
    IN  [rebalancing_needed |-> needed,
         drifts             |-> drifts,
         max_drift          |-> IF DOMAIN target = {} THEN [num |-> 0, den |-> 1]
                                                      ELSE largest,
         recommendation     |-> IF needed
                                   THEN <<GenerateRebalancingPlan(current, target, drifts)>>
                                   ELSE <<>>]

\* current holdings: each class missing or holding one of these amounts
HeldAmounts == {0, 5, 10, 35, 80}

CurrentPortfolios == Records([Classes -> HeldAmounts])

\* targets: the strategic tables
TargetAllocationsOffered == {GetStrategicAllocation(r) : r \in RiskProfiles}

InitRebalancing ==
    /\ current_portfolio = EmptyDict
    /\ target_allocation = EmptyDict
    /\ analysis = EmptyDict
    /\ rpc = "idle"
    /\ IdlePortfolio /\ IdleScoring /\ IdleRanking /\ IdleMetrics /\ IdleAggregate
    /\ IdleProfiling /\ IdleCache

\* analyze_rebalancing_need(current_portfolio, target_allocation)
Analyze ==
    /\ rpc = "idle"
    /\ \E current \in CurrentPortfolios, target \in TargetAllocationsOffered :
          /\ current_portfolio' = current
          /\ target_allocation' = target
          /\ analysis' = AnalyzeRebalancingNeed(current, target)
    /\ rpc' = "analyzed"
    /\ UNCHANGED notRebalancing

NextRebalancing == Analyze

SpecRebalancing == InitRebalancing /\ [][NextRebalancing]_vars

-----------------------------------------------------------------------------
(* Claims about the rebalancing analysis (checked under SpecRebalancing) *)

\* the current amount of a class, 0 when the class is not held
Held(c) == IF c \in DOMAIN current_portfolio THEN current_portfolio[c] ELSE 0

HeldTotal == Held("Equity") + Held("Debt") + Held("Gold") + Held("Cash")

\* |100 x current / total - target%| > 10, cleared of the division; with no
\* holdings at all the current share counts as 0
DriftOver10(c) ==
    IF HeldTotal > 0
        THEN Abs(100 * Held(c) - target_allocation[c] * HeldTotal) > 10 * HeldTotal
        ELSE target_allocation[c] > 10

\* the positions of the actions for class c in a list of plan actions
ActionsFor(actions, c) == {i \in 1..Len(actions) : actions[i].asset_class = c}

\* C6: drift = |100 x current amount / current total - target%| per class of
\* the target; rebalancing_needed iff some drift is strictly above 10; when
\* it is, the plan holds exactly one action for each class whose drift is
\* above 10 (a buy of target amount - current amount when the target amount
\* is larger, otherwise a sell of current amount - target amount) and none
\* for a class whose drift is at most 10.
C6_DriftThresholdAndPlan ==
    rpc = "analyzed" =>
        /\ DOMAIN analysis.drifts = DOMAIN target_allocation
        /\ \A c \in DOMAIN target_allocation :
              HeldTotal > 0 =>
                 analysis.drifts[c].num * HeldTotal
                    = Abs(100 * Held(c) - target_allocation[c] * HeldTotal)
                         * analysis.drifts[c].den
        /\ analysis.rebalancing_needed
              = (\E c \in DOMAIN target_allocation : DriftOver10(c))
        /\ ~analysis.rebalancing_needed => analysis.recommendation = <<>>
        /\ analysis.rebalancing_needed =>
              /\ Len(analysis.recommendation) = 1
              /\ LET plan == analysis.recommendation[1]
                 IN  \A c \in DOMAIN target_allocation :
                        LET buys   == ActionsFor(plan.buy, c)
                            sells  == ActionsFor(plan.sell, c)
                            \* target and current amount, times 100
                            target == target_allocation[c] * HeldTotal
                            held   == 100 * Held(c)
                        IN  IF ~DriftOver10(c) THEN buys = {} /\ sells = {}
                            ELSE IF target > held
                                THEN /\ sells = {} /\ Cardinality(buys) = 1
                                     /\ \A i \in buys : plan.buy[i].amount = target - held
                                ELSE /\ buys = {} /\ Cardinality(sells) = 1
                                     /\ \A i \in sells : plan.sell[i].amount = held - target

\* C6 witness: a plan with a buy and a sell that leaves out a class whose
\* drift is exactly 10 points
C6_Witness ==
    /\ rpc = "analyzed"
    /\ analysis.rebalancing_needed
    /\ analysis.recommendation[1].buy # <<>>
    /\ analysis.recommendation[1].sell # <<>>
    /\ \E c \in DOMAIN target_allocation :
          /\ analysis.drifts[c].num = 10 * analysis.drifts[c].den
          /\ ActionsFor(analysis.recommendation[1].buy, c) = {}
          /\ ActionsFor(analysis.recommendation[1].sell, c) = {}

\* the example of the spec: current 80/10/5/5 against the target 50/35/10/5
RebalancingExample ==
    /\ rpc = "analyzed"
    /\ current_portfolio = [Equity |-> 80, Debt |-> 10, Gold |-> 5, Cash |-> 5]
    /\ target_allocation = [Equity |-> 50, Debt |-> 35, Gold |-> 10, Cash |-> 5]

\* C7: in every plan estimated_cost is 0.001 times the sum of the buy
\* amounts (amounts are times 100 and the cost times 100000, so the two
\* numbers are equal) and the sells add nothing; in the example the plan
\* sells Equity for 30, buys for 25 in total and costs 0.025.
C7_CostOverBuySideOnly ==
    (rpc = "analyzed" /\ analysis.rebalancing_needed) =>
        LET plan == analysis.recommendation[1]
        IN  /\ plan.estimated_cost = SumAmounts(plan.buy)
            /\ RebalancingExample =>
                  /\ plan.sell = <<[asset_class |-> "Equity", amount |-> 3000]>>
                  /\ SumAmounts(plan.buy) = 2500
                  /\ plan.estimated_cost = 2500

\* C7 witness: the example was analysed and a plan with a sell came back
C7_Witness ==
    /\ RebalancingExample
    /\ analysis.rebalancing_needed
    /\ analysis.recommendation[1].sell # <<>>
    /\ analysis.recommendation[1].estimated_cost = 2500

\* the current share of class c is above / below its target percentage; with
\* nothing held the share is 0
ShareAbove(c) ==
    IF HeldTotal > 0 THEN Held(c) * 100 > target_allocation[c] * HeldTotal
                     ELSE 0 > target_allocation[c]
ShareBelow(c) ==
    IF HeldTotal > 0 THEN Held(c) * 100 < target_allocation[c] * HeldTotal
                     ELSE 0 < target_allocation[c]

\* every action of the plan has a positive amount, sells are for classes
\* above target and buys for classes below target
PlanActionsSound ==
    \A k \in 1..Len(analysis.recommendation) :
        LET plan == analysis.recommendation[k]
        IN  /\ \A i \in 1..Len(plan.sell) :
                  plan.sell[i].amount > 0 /\ ShareAbove(plan.sell[i].asset_class)
            /\ \A i \in 1..Len(plan.buy) :
                  plan.buy[i].amount > 0 /\ ShareBelow(plan.buy[i].asset_class)

\* C27: every action of a rebalancing plan has a strictly positive amount,
\* every sell action is for a class whose current share is above its target
\* percentage and every buy action for a class whose current share is below
\* it, for every current portfolio, an empty one and one whose amounts total
\* 0 included.
C27_PlanActionsPositiveAndDirected ==
    rpc = "analyzed" => PlanActionsSound

\* C27, supporting: the same for current portfolios that hold something
C27_PlanActionsOfHeldPortfolio ==
    (rpc = "analyzed" /\ HeldTotal > 0) => PlanActionsSound

-----------------------------------------------------------------------------
(* Metric functions on price sequences *)

MaxSeqLen == 4

PriceValues == {1, 2, 3}

\* every price sequence of at most n points
SeqsUpTo(n) == UNION {[1..k -> PriceValues] : k \in 0..n}

\* short sequences of every shape, and 20-point histories of each kind
MetricSequences == SeqsUpTo(MaxSeqLen) \cup {PriceSeq(k, 20) : k \in PriceKinds}

\* periods around the short lengths, and the default period
RsiPeriods == {1, 2, 3, RsiPeriod}

\* ---- NAV metrics of MutualFundDataAgent (data_agents.py).  A NAV history
\* is most recent first.  Period returns are kept times 1000.

\* the returns list cannot be averaged: it is empty (sum / len divides by
\* zero) or one of its divisors navs[i + 1] is 0
NavReturnsRaise(navs) ==
    \/ Len(navs) < 2
    \/ \E i \in 2..Len(navs) : navs[i] = 0

\* returns = [(navs[i] - navs[i + 1]) / navs[i + 1] ...]
NavReturns(navs) ==
    [i \in 1..(Len(navs) - 1) |-> ((navs[i] - navs[i + 1]) * 1000) \div navs[i + 1]]

\* sum((r - mean) ** 2 for r in returns) / len(returns), on returns times 1000
ReturnVariance(returns) ==
    LET n    == Len(returns)
        mean == SumSeq(returns, n) \div n
    IN  SumSeq([i \in 1..n |-> (returns[i] - mean) * (returns[i] - mean)], n) \div n

\* _calculate_volatility, in tenths of a percent; the bare except returns 0
CalculateVolatility(navs) ==
    IF NavReturnsRaise(navs) THEN 0
    ELSE ISqrt(ReturnVariance(NavReturns(navs)))

\* C20 mutant: a consistency whose except branch returns 0 like the others
CalculateConsistencyZeroOnFault(navs) ==
    IF NavReturnsRaise(navs) THEN 0
    ELSE (Cardinality({i \in 1..(Len(navs) - 1) :
                          (navs[i] - navs[i + 1]) * navs[i + 1] > 0}) * 10000)
         \div (Len(navs) - 1)

\* _calculate_consistency, times 10000: the share of returns above 0; the
\* bare except returns 0.5
CalculateConsistency(navs) ==
    IF NavReturnsRaise(navs) THEN 5000
    ELSE (Cardinality({i \in 1..(Len(navs) - 1) :
                          (navs[i] - navs[i + 1]) * navs[i + 1] > 0}) * 10000)
         \div (Len(navs) - 1)

\* all period returns are the same number (compared as exact fractions)
EqualReturns(navs) ==
    \A i, j \in 1..(Len(navs) - 1) :
        (navs[i] - navs[i + 1]) * navs[j + 1] = (navs[j] - navs[j + 1]) * navs[i + 1]

\* NAV histories with a steady period return: 100/9 percent, 200 percent
\* and -200/3 percent
SteadyNavs == {<<1000, 900, 810, 729>>, <<27, 9, 3, 1>>, <<1, 3, 9, 27>>}

\* mean = sum(returns) / len(returns) is evaluated in double precision.
\* For the steady history <<1000, 900, 810, 729>> the three returns are the
\* same double r, r + r + r is rounded, and the mean comes out one unit in
\* the last place away from r; for the other histories of the model with
\* equal returns (returns 0, 200 and -200/3 percent) the mean is r.
RoundedMeanNavs == {<<1000, 900, 810, 729>>}

\* C20 mutant: a Sharpe ratio computed with an exact mean
CalculateSharpeExactMean(navs) ==
    IF NavReturnsRaise(navs) THEN 0
    ELSE LET returns    == NavReturns(navs)
             n          == Len(returns)
             avg_return == (SumSeq(returns, n) * 365) \div n
             spread     == (ISqrt(ReturnVariance(returns)) * 1910) \div 100
             std_dev    == IF EqualReturns(navs) THEN 0 ELSE Max(1, spread)
         IN  IF std_dev = 0 THEN 0
             ELSE ((avg_return - 65) * 100) \div std_dev

\* _calculate_sharpe, times 100, with risk_free_rate = 6.5; returns are in
\* percent times 10, std_dev = sqrt(variance) * sqrt(365) with 19.10 for
\* sqrt(365).  With equal returns the variance is 0 unless the mean was
\* rounded: std_dev is then a rounding residue (about 1e-15, here the
\* smallest unit), the guard `if std_dev` lets the division through and the
\* quotient is huge.
CalculateSharpe(navs) ==
    IF NavReturnsRaise(navs) THEN 0
    ELSE LET returns    == NavReturns(navs)
             n          == Len(returns)
             avg_return == (SumSeq(returns, n) * 365) \div n
             spread     == (ISqrt(ReturnVariance(returns)) * 1910) \div 100
             std_dev    == IF EqualReturns(navs)
                               THEN (IF navs \in RoundedMeanNavs THEN 1 ELSE 0)
                               ELSE Max(1, spread)
         IN  IF std_dev = 0 THEN 0
             ELSE ((avg_return - 65) * 100) \div std_dev

NavValues == {0, 1, 2, 4}

\* every NAV history of at most MaxSeqLen points, and the steady ones
NavSequences == SteadyNavs \cup UNION {[1..k -> NavValues] : k \in 0..MaxSeqLen}

InitMetrics ==
    /\ metric_prices = <<>>
    /\ metric_period = 0
    /\ metric_arg = 0
    /\ metric_out = [metric |-> "none", value |-> 0]
    /\ mpc = "idle"
    /\ IdlePortfolio /\ IdleScoring /\ IdleRanking /\ IdleRebalancing /\ IdleAggregate
    /\ IdleProfiling /\ IdleCache

\* self._calculate_rsi(prices, period)
RsiCall ==
    /\ mpc = "idle"
    /\ \E prices \in MetricSequences, period \in RsiPeriods :
          /\ metric_prices' = prices
          /\ metric_period' = period
          /\ metric_out' = [metric |-> "rsi", value |-> CalculateRsi(prices, period)]
    /\ mpc' = "done"
    /\ UNCHANGED <<metric_arg, notMetrics>>

\* self._calculate_volatility(navs)
VolatilityCall ==
    /\ mpc = "idle"
    /\ \E navs \in NavSequences :
          /\ metric_prices' = navs
          /\ metric_out' = [metric |-> "volatility", value |-> CalculateVolatility(navs)]
    /\ mpc' = "done"
    /\ UNCHANGED <<metric_period, metric_arg, notMetrics>>

\* self._calculate_consistency(navs)
ConsistencyCall ==
    /\ mpc = "idle"
    /\ \E navs \in NavSequences :
          /\ metric_prices' = navs
          /\ metric_out' = [metric |-> "consistency", value |-> CalculateConsistency(navs)]
    /\ mpc' = "done"
    /\ UNCHANGED <<metric_period, metric_arg, notMetrics>>

\* self._calculate_sharpe(navs)
SharpeCall ==
    /\ mpc = "idle"
    /\ \E navs \in NavSequences :
          /\ metric_prices' = navs
          /\ metric_out' = [metric |-> "sharpe", value |-> CalculateSharpe(navs)]
    /\ mpc' = "done"
    /\ UNCHANGED <<metric_period, metric_arg, notMetrics>>

\* self._calculate_max_drawdown(prices)
DrawdownCall ==
    /\ mpc = "idle"
    /\ \E prices \in MetricSequences :
          /\ metric_prices' = prices
          /\ metric_out' = [metric |-> "drawdown", value |-> CalculateMaxDrawdown(prices)]
    /\ mpc' = "done"
    /\ UNCHANGED <<metric_period, metric_arg, notMetrics>>

\* RSI values from 0 to 100 in steps of 2.5, times 100
RsiLevels == {250 * k : k \in 0..40}

\* self._score_rsi(rsi)
RsiScoreCall ==
    /\ mpc = "idle"
    /\ \E rsi \in RsiLevels :
          /\ metric_arg' = rsi
          /\ metric_out' = [metric |-> "rsi_score", value |-> ScoreRsi(rsi)]
    /\ mpc' = "done"
    /\ UNCHANGED <<metric_prices, metric_period, notMetrics>>

\* market caps on both sides of each tier bound, in units of 1e10
MarketCaps == {0, 4, 5, 6, 9, 10, 11, 49, 50, 51, 99, 100, 101, 500}

\* self._score_market_cap(market_cap)
MarketCapCall ==
    /\ mpc = "idle"
    /\ \E market_cap \in MarketCaps :
          /\ metric_arg' = market_cap
          /\ metric_out' = [metric |-> "cap_score", value |-> ScoreMarketCap(market_cap)]
    /\ mpc' = "done"
    /\ UNCHANGED <<metric_prices, metric_period, notMetrics>>

NextMetrics ==
    \/ RsiCall \/ VolatilityCall \/ ConsistencyCall \/ SharpeCall \/ DrawdownCall
    \/ RsiScoreCall \/ MarketCapCall

SpecMetrics == InitMetrics /\ [][NextMetrics]_vars

\* all prices equal: neither gains nor losses
FlatPrices == \A i, j \in 1..Len(metric_prices) : metric_prices[i] = metric_prices[j]

\* C8: the RSI is the neutral 50 for every price sequence without gains and
\* losses (all prices equal, such as twenty equal prices with period 14) and
\* for every sequence of fewer than period + 1 points; a flat sequence never
\* gets 100.
C8_FlatOrShortRsiIsNeutral ==
    (/\ mpc = "done"
     /\ metric_out.metric = "rsi"
     /\ (FlatPrices \/ Len(metric_prices) < metric_period + 1))
    => metric_out.value = 5000

\* the edge case the spec names: rsi([1] * 20) with the default period
C8_TwentyEqualPrices ==
    (/\ mpc = "done"
     /\ metric_out.metric = "rsi"
     /\ Len(metric_prices) = 20 /\ FlatPrices /\ metric_period = 14)
    => metric_out.value # 10000

\* the NAV history is too short for a return, or a return divides by zero
NoReturns ==
    \/ Len(metric_prices) <= 1
    \/ \E i \in 2..Len(metric_prices) : metric_prices[i] = 0

\* the period returns exist and have standard deviation 0: they are all equal
ZeroDeviation ==
    /\ ~NoReturns
    /\ \A i, j \in 2..Len(metric_prices) :
          (metric_prices[i - 1] - metric_prices[i]) * metric_prices[j]
              = (metric_prices[j - 1] - metric_prices[j]) * metric_prices[i]

\* C20: for a NAV sequence of length 0 or 1, and for one with a zero NAV as
\* a divisor, _calculate_volatility returns 0, _calculate_consistency 0.5
\* and _calculate_sharpe 0; _calculate_sharpe returns 0 whenever the
\* standard deviation of the returns is 0; _calculate_consistency always
\* returns a value in [0, 1].
C20_NavMetricsFailSoft ==
    (mpc = "done" /\ metric_out.metric \in {"volatility", "consistency", "sharpe"}) =>
        /\ (NoReturns /\ metric_out.metric = "volatility") => metric_out.value = 0
        /\ (NoReturns /\ metric_out.metric = "consistency") => metric_out.value = 5000
        /\ (NoReturns /\ metric_out.metric = "sharpe") => metric_out.value = 0
        /\ (ZeroDeviation /\ metric_out.metric = "sharpe") => metric_out.value = 0
        /\ metric_out.metric = "consistency"
              => (0 <= metric_out.value /\ metric_out.value <= 10000)

\* C20, supporting: the three metrics fail soft on histories without
\* returns and the consistency stays in [0, 1]
C20_FailSoftWithoutReturns ==
    (mpc = "done" /\ metric_out.metric \in {"volatility", "consistency", "sharpe"}) =>
        /\ (NoReturns /\ metric_out.metric = "volatility") => metric_out.value = 0
        /\ (NoReturns /\ metric_out.metric = "consistency") => metric_out.value = 5000
        /\ (NoReturns /\ metric_out.metric = "sharpe") => metric_out.value = 0
        /\ metric_out.metric = "consistency"
              => (0 <= metric_out.value /\ metric_out.value <= 10000)

\* C20, supporting: a constant NAV history has a Sharpe ratio of 0
C20_ConstantNavSharpeIsZero ==
    (/\ mpc = "done" /\ metric_out.metric = "sharpe"
     /\ Len(metric_prices) >= 2
     /\ \A i \in 1..Len(metric_prices) : metric_prices[i] = metric_prices[1]
     /\ metric_prices[1] # 0)
        => metric_out.value = 0

\* the highest of the first i prices
RunningPeak(i) ==
    CHOOSE x \in {metric_prices[j] : j \in 1..i} :
        \A j \in 1..i : metric_prices[j] <= x

\* 100 x (price_i - running peak) / running peak, in hundredths of a percent
DeclineAt(i) == ((metric_prices[i] - RunningPeak(i)) * 10000) \div RunningPeak(i)

\* C21: for every sequence of positive prices _calculate_max_drawdown
\* returns the minimum over the positions i of
\* 100 x (price_i - running peak up to i) / running peak up to i; the
\* result is never positive, and it is 0 for an empty sequence, a single
\* price and every non-decreasing sequence.
C21_MaxDrawdownIsDeepestDecline ==
    (/\ mpc = "done" /\ metric_out.metric = "drawdown"
     /\ \A i \in 1..Len(metric_prices) : metric_prices[i] > 0)
    => /\ metric_out.value <= 0
       /\ Len(metric_prices) <= 1 => metric_out.value = 0
       /\ (\A i \in 2..Len(metric_prices) : metric_prices[i - 1] <= metric_prices[i])
             => metric_out.value = 0
       /\ Len(metric_prices) >= 1 =>
             /\ \A i \in 1..Len(metric_prices) : metric_out.value <= DeclineAt(i)
             /\ \E i \in 1..Len(metric_prices) : metric_out.value = DeclineAt(i)

\* a decline measured from a peak that was raised after the first price
C21_Witness ==
    /\ mpc = "done" /\ metric_out.metric = "drawdown"
    /\ metric_prices = <<1, 3, 2>>
    /\ metric_out.value = -3334

\* C22: the RSI score is 1.0 for an RSI in [40, 60], decays linearly from
\* 1.0 toward 0 as the RSI rises from 60 to 70 and as it falls from 40 to
\* 30, and is 0 for every RSI above 70 and every RSI below 30.
C22_RsiScoreBandAndDecay ==
    (mpc = "done" /\ metric_out.metric = "rsi_score") =>
        /\ (4000 <= metric_arg /\ metric_arg <= 6000) => metric_out.value = 10000
        /\ (6000 < metric_arg /\ metric_arg <= 7000)
              => metric_out.value = 10000 - (metric_arg - 6000) * 10
        /\ (3000 <= metric_arg /\ metric_arg < 4000)
              => metric_out.value = (metric_arg - 3000) * 10
        /\ (metric_arg > 7000 \/ metric_arg < 3000) => metric_out.value = 0

\* C22, supporting: what _score_rsi does return: 1.0 in the band, 0.8
\* between the band and 30 or 70, and beyond them a value that starts at 1
\* and falls linearly to 0 at RSI 0 and at RSI 100
C22_RsiScoreAsCoded ==
    (mpc = "done" /\ metric_out.metric = "rsi_score") =>
        /\ (4000 <= metric_arg /\ metric_arg <= 6000) => metric_out.value = 10000
        /\ (6000 < metric_arg /\ metric_arg <= 7000) => metric_out.value = 8000
        /\ (3000 <= metric_arg /\ metric_arg < 4000) => metric_out.value = 8000
        /\ metric_arg > 7000
              => metric_out.value = 10000 - ((metric_arg - 7000) * 100) \div 30
        /\ metric_arg < 3000 => metric_out.value = (metric_arg * 100) \div 30

\* C23: the market-cap tier score is 1.0 for every market cap of 1e12 or
\* more (exactly 1e12 included), 0.4 for every market cap below the lowest
\* tier bound, and non-decreasing in the market cap.
C23_MarketCapTiers ==
    (mpc = "done" /\ metric_out.metric = "cap_score") =>
        /\ metric_arg >= 100 => metric_out.value = 10000
        /\ metric_arg < 5 => metric_out.value = 4000
        /\ \A smaller \in MarketCaps :
              smaller <= metric_arg => ScoreMarketCap(smaller) <= metric_out.value

\* C23, supporting: the claim with the top tier starting above 1e12
C23_MarketCapTiersAbove ==
    (mpc = "done" /\ metric_out.metric = "cap_score") =>
        /\ metric_arg > 100 => metric_out.value = 10000
        /\ metric_arg = 100 => metric_out.value = 9000
        /\ metric_arg < 5 => metric_out.value = 4000
        /\ \A smaller \in MarketCaps :
              smaller <= metric_arg => ScoreMarketCap(smaller) <= metric_out.value

-----------------------------------------------------------------------------
(* InvestmentAgent._score_assets, _get_scoring_weights and                  *)
(* _calculate_confidence (agent.py).  Weights are in percent (35 is 0.35).  *)

\* C11 mutant: a lookup whose fallback is the first table, not Balanced
GetScoringWeightsFirstAsDefault(risk_profile) ==
    CASE risk_profile = "Balanced" ->
            [valuation |-> 25, momentum |-> 25, quality |-> 25, risk |-> 25]
      [] risk_profile = "Aggressive" ->
            [valuation |-> 20, momentum |-> 35, quality |-> 25, risk |-> 20]
      [] OTHER ->
            [valuation |-> 30, momentum |-> 20, quality |-> 30, risk |-> 20]

\* _get_scoring_weights: weights.get(risk_profile, weights['Balanced'])
GetScoringWeights(risk_profile) ==
    CASE risk_profile = "Conservative" ->
            [valuation |-> 30, momentum |-> 20, quality |-> 30, risk |-> 20]
      [] risk_profile = "Aggressive" ->
            [valuation |-> 20, momentum |-> 35, quality |-> 25, risk |-> 20]
      [] OTHER ->
            [valuation |-> 25, momentum |-> 25, quality |-> 25, risk |-> 25]

\* C17 mutant: an aggregate that leaves the risk component out
AggregateScoreWithoutRisk(stock_scores, weights) ==
    SumOver([key \in DOMAIN weights \ {"risk"} |-> stock_scores[key] * weights[key]],
            DOMAIN weights \ {"risk"}) \div 100

\* sum(stock_scores[key] * weights[key] for key in weights)
AggregateScore(stock_scores, weights) ==
    SumOver([key \in DOMAIN weights |-> stock_scores[key] * weights[key]],
            DOMAIN weights) \div 100

\* the entry _score_assets stores for a stock whose sub-scores are stock_scores
StockEntry(symbol, stock_scores, risk_profile) ==
    [id                |-> symbol,
     individual_scores |-> stock_scores,
     score             |-> AggregateScore(stock_scores, GetScoringWeights(risk_profile)),
     well_formed       |-> TRUE]

\* stock_scores of _score_assets: the four agents' sub-scores of one stock
StockScores(stock_data) ==
    [valuation |-> ValuationScore(stock_data),
     momentum  |-> MomentumScore(stock_data),
     quality   |-> QualityScore(stock_data),
     risk      |-> RiskScore(stock_data)]

\* _score_assets.  The stock and fund mappings are the sequences of their
\* items [id, data] in insertion order.  user_profile['risk_profile'] is read
\* inside the stock loop: without the key the first stock raises KeyError and
\* the except branch returns the scores collected so far, which are none.
ScoreAssets(md, up) ==
    LET stocks == Get(md, "stocks", <<>>)
        funds  == Get(md, "mutual_funds", <<>>)
    IN  IF Len(stocks) > 0 /\ "risk_profile" \notin DOMAIN up
            THEN [stocks |-> <<>>, mutual_funds |-> <<>>]
            ELSE [stocks |->
                     [i \in 1..Len(stocks) |->
                         StockEntry(stocks[i].id, StockScores(stocks[i].data),
                                    up["risk_profile"])],
                  mutual_funds |->
                     [i \in 1..Len(funds) |->
                         [id |-> funds[i].id,
                          score |-> ScoreMutualFund(funds[i].data)]]]

\* _calculate_confidence, times 10000.  The variance is kept times 10000:
\* the deviations are cut to three decimals before they are squared.
CalculateConfidence(result) ==
    LET stocks     == Get(result, "stocks", <<>>)
        funds      == Get(result, "mutual_funds", <<>>)
        all_scores == [i \in 1..Len(stocks) |-> stocks[i].score]
                      \o [i \in 1..Len(funds) |-> funds[i].score]
        n          == Len(all_scores)
    IN  IF n = 0 THEN Neutral
        ELSE LET avg_score  == SumSeq(all_scores, n) \div n
                 dev        == [i \in 1..n |-> (all_scores[i] - avg_score) \div 10]
                 variance   == (SumSeq([i \in 1..n |-> dev[i] * dev[i]], n) \div n) \div 100
                 confidence == (avg_score * (10000 - Min(variance, 3000))) \div 10000
             IN  Min(confidence, 10000)

\* the stock records of the market data: complete, empty, a P/E that is not
\* a number, a 1-year return that is not a number, a history of zero prices
StockRecords ==
    LET complete == [pe_ratio |-> 10, pb_ratio |-> 1, dividend_yield |-> 200,
                     sector |-> "Technology", returns_1y |-> 10,
                     volatility |-> 20, market_cap |-> 70,
                     historical_prices |-> PriceSeq("up", 50)]
    IN  {complete, EmptyDict,
         [complete EXCEPT !.pe_ratio = NotANumber],
         [complete EXCEPT !.returns_1y = NotANumber],
         [complete EXCEPT !.historical_prices = PriceSeq("zero", 50)]}

\* the fund records: good figures, losses, empty
FundRecords ==
    {[returns_3y |-> 10, consistency |-> 5000, sharpe_ratio |-> 100],
     [returns_3y |-> -40, consistency |-> 0, sharpe_ratio |-> -300],
     EmptyDict}

MaxAssets == 2

\* the items of a mapping of n records, keyed 1..n in insertion order
ItemSeqs(records) ==
    UNION {{[i \in 1..n |-> [id |-> i, data |-> f[i]]] : f \in [1..n -> records]} :
              n \in 0..MaxAssets}

\* market data: a stock and a fund mapping, or the {} of a failed collection
MarketData ==
    {[stocks |-> st, mutual_funds |-> mf] :
        st \in ItemSeqs(StockRecords), mf \in ItemSeqs(FundRecords)}
    \cup {EmptyDict}

\* the user profiles handed to _score_assets, one without risk_profile
ScoringProfiles == {[risk_profile |-> r] : r \in RiskProfiles} \cup {EmptyDict}

\* the sub-score values handed to the aggregate: the ends and inside of [0, 1]
SubScoreLevels == {0, 2500, 5000, 10000}

\* the four sub-scores of one stock, any combination of levels
ScoreVectors == [{"valuation", "momentum", "quality", "risk"} -> SubScoreLevels]

InitAggregate ==
    /\ market_data = EmptyDict
    /\ scoring_profile = EmptyDict
    /\ weights_out = EmptyDict
    /\ scores_out = EmptyDict
    /\ confidence_out = 0
    /\ apc = "idle"
    /\ IdlePortfolio /\ IdleScoring /\ IdleRanking /\ IdleRebalancing /\ IdleMetrics
    /\ IdleProfiling /\ IdleCache

\* self._get_scoring_weights(user_profile['risk_profile'])
GetWeights ==
    /\ apc = "idle"
    /\ \E key \in RiskProfiles :
          /\ scoring_profile' = [risk_profile |-> key]
          /\ weights_out' = GetScoringWeights(key)
    /\ apc' = "weighted"
    /\ UNCHANGED <<market_data, scores_out, confidence_out, notAggregate>>

\* the weighted aggregate of _score_assets on the sub-scores of one stock
Aggregate ==
    /\ apc = "idle"
    /\ \E key \in RiskProfiles, v \in ScoreVectors :
          /\ scoring_profile' = [risk_profile |-> key]
          /\ weights_out' = GetScoringWeights(key)
          /\ scores_out' = [stocks |-> <<StockEntry(1, v, key)>>,
                            mutual_funds |-> <<>>]
    /\ apc' = "aggregated"
    /\ UNCHANGED <<market_data, confidence_out, notAggregate>>

\* self._score_assets(market_data, user_profile)
ScoreAllAssets ==
    /\ apc = "idle"
    /\ \E md \in MarketData, up \in ScoringProfiles :
          /\ market_data' = md
          /\ scoring_profile' = up
          /\ scores_out' = ScoreAssets(md, up)
    /\ apc' = "scored"
    /\ UNCHANGED <<weights_out, confidence_out, notAggregate>>

\* self._calculate_confidence(asset_scores) on the scores of the run
RateConfidence ==
    /\ apc = "scored"
    /\ confidence_out' = CalculateConfidence(scores_out)
    /\ apc' = "rated"
    /\ UNCHANGED <<market_data, scoring_profile, weights_out, scores_out, notAggregate>>

NextAggregate == GetWeights \/ Aggregate \/ ScoreAllAssets \/ RateConfidence

SpecAggregate == InitAggregate /\ [][NextAggregate]_vars

-----------------------------------------------------------------------------
(* Claims about the weights and the aggregate (checked under SpecAggregate) *)

\* C11: for every risk-profile key _get_scoring_weights returns four weights
\* (valuation, momentum, quality, risk) that sum to 1.0, and a key other
\* than Conservative, Balanced or Aggressive gets the Balanced weights, 0.25
\* each.
C11_WeightsSumToOne ==
    apc = "weighted" =>
        /\ DOMAIN weights_out = {"valuation", "momentum", "quality", "risk"}
        /\ SumValues(weights_out) = 100
        /\ scoring_profile["risk_profile"] \notin KnownProfiles
              => \A key \in DOMAIN weights_out : weights_out[key] = 25

\* C11 witness: the weights of a key none of the tables knows
C11_Witness ==
    /\ apc = "weighted"
    /\ scoring_profile["risk_profile"] = "Growth"
    /\ weights_out["momentum"] = 25

\* C17: the aggregate score is the sum over the four components of sub-score
\* x profile weight; under every profile's weights all ones give 1.0, all
\* zeros give 0.0, and sub-scores in [0, 1] give an aggregate in [0, 1].
C17_AggregateIsWeightedSum ==
    apc = "aggregated" =>
        LET entry == scores_out["stocks"][1]
            v     == entry.individual_scores
            w     == weights_out
        IN  /\ entry.score * 100 <= v["valuation"] * w["valuation"]
                    + v["momentum"] * w["momentum"]
                    + v["quality"] * w["quality"] + v["risk"] * w["risk"]
            /\ v["valuation"] * w["valuation"] + v["momentum"] * w["momentum"]
                    + v["quality"] * w["quality"] + v["risk"] * w["risk"]
                  < (entry.score + 1) * 100
            /\ (\A key \in DOMAIN v : v[key] = 10000) => entry.score = 10000
            /\ (\A key \in DOMAIN v : v[key] = 0) => entry.score = 0
            /\ 0 <= entry.score /\ entry.score <= 10000

\* C17 witness: all ones under the Aggressive weights (0.2, 0.35, 0.25, 0.2)
C17_Witness ==
    /\ apc = "aggregated"
    /\ scoring_profile["risk_profile"] = "Aggressive"
    /\ \A key \in DOMAIN scores_out["stocks"][1].individual_scores :
          scores_out["stocks"][1].individual_scores[key] = 10000
    /\ scores_out["stocks"][1].score = 10000

\* the scores a confidence is computed from: stock aggregates, then funds
AllScores ==
    [i \in 1..Len(scores_out["stocks"]) |-> scores_out["stocks"][i].score]
    \o [i \in 1..Len(scores_out["mutual_funds"]) |->
            scores_out["mutual_funds"][i].score]

\* C18: _calculate_confidence returns 0.5 when there is no stock or fund
\* score, otherwise mean x (1 - min(population variance, 0.3)) over the
\* stock aggregates and fund scores together, and for a non-empty result of
\* the pipeline the confidence lies in [0, 1].
C18_ConfidenceFormulaAndRange ==
    apc = "rated" =>
        LET n == Len(AllScores)
        IN  /\ n = 0 => confidence_out = 5000
            /\ n > 0 =>
                  LET total == SumSeq(AllScores, n)
                      mean  == total \div n
                      sq    == SumSeq([i \in 1..n |->
                                          ((AllScores[i] - mean) \div 10)
                                          * ((AllScores[i] - mean) \div 10)], n)
                      var   == sq \div (n * 100)
                      cut   == IF var < 3000 THEN var ELSE 3000
                  IN  /\ confidence_out = (mean * (10000 - cut)) \div 10000
                      /\ 0 <= confidence_out
                      /\ confidence_out <= 10000

\* the sub-scorer `agent` hits a computation fault on the record: a field
\* it computes with is not a number, or a division by zero in the trend
\* (mean price 0 over 50 or more points) or in the drawdown (peak 0 over 30
\* or more points)
HitsFault(agent, data) ==
    LET prices == Get(data, "historical_prices", <<>>)
    IN  CASE agent = "valuation" ->
                Raises(data, {"pe_ratio", "pb_ratio", "dividend_yield"})
          [] agent = "momentum" ->
                \/ Raises(data, {"returns_1y"})
                \/ Len(prices) >= 50 /\ SumSeq(prices, Len(prices)) = 0
          [] agent = "quality" ->
                Raises(data, {"market_cap", "returns_1y", "volatility"})
          [] OTHER ->
                \/ Raises(data, {"volatility"})
                \/ Len(prices) >= 30 /\ DrawdownRaises(prices)

\* the record without what made a scorer fault: fields that are not numbers
\* and a price history that divides by zero are left out
WithoutFault(data) ==
    LET kept == {f \in DOMAIN data :
                    IF f = "historical_prices"
                        THEN ~HitsFault("momentum", [historical_prices |-> data[f]])
                    ELSE IF f = "sector" THEN TRUE
                    ELSE data[f] # NotANumber}
    IN  [f \in kept |-> data[f]]

\* C19: when a sub-scorer hits a computation fault for an asset it returns
\* exactly 0.5, the other sub-scores of the asset are what they are without
\* the fault, and _score_assets still stores an aggregate for that asset and
\* for every other asset.
C19_FaultIsolation ==
    (apc = "scored" /\ "risk_profile" \in DOMAIN scoring_profile) =>
        LET stocks  == Get(market_data, "stocks", <<>>)
            entries == scores_out["stocks"]
        IN  /\ Len(entries) = Len(stocks)
            /\ \A i \in 1..Len(stocks) :
                  LET data == stocks[i].data
                      sub  == entries[i].individual_scores
                  IN  /\ entries[i].id = stocks[i].id
                      /\ \A agent \in StockAgents :
                            IF HitsFault(agent, data)
                                THEN sub[agent] = 5000
                                ELSE sub[agent] = StockScores(WithoutFault(data))[agent]
                      /\ entries[i].score
                            = AggregateScore(sub, GetScoringWeights(
                                                     scoring_profile["risk_profile"]))

\* C19, the faults the scorer's own try block catches: a field that is not a
\* number makes the scorer return 0.5 and leaves the others as they are
C19_TypeFaultIsNeutral ==
    (apc = "scored" /\ "risk_profile" \in DOMAIN scoring_profile) =>
        LET stocks  == Get(market_data, "stocks", <<>>)
            entries == scores_out["stocks"]
        IN  /\ Len(entries) = Len(stocks)
            /\ \A i \in 1..Len(stocks) :
                  LET data  == stocks[i].data
                      sub   == entries[i].individual_scores
                      typed == \E f \in DOMAIN data \ {"sector", "historical_prices"} :
                                   data[f] = NotANumber
                  IN  typed =>
                        \A agent \in StockAgents :
                            IF HitsFault(agent, data)
                                THEN sub[agent] = 5000
                                ELSE sub[agent] = StockScores(WithoutFault(data))[agent]

-----------------------------------------------------------------------------
(* UserProfilingAgent (user_agents.py) and the portfolio the pipeline       *)
(* builds for its profile.  risk_score, max_equity_allocation and           *)
(* recommended_sip are kept times 10.                                       *)

\* _calculate_risk_score
CalculateRiskScore(age, horizon, risk_tolerance) ==
    LET age_factor     == IF age < 30 THEN 35
                          ELSE IF age < 40 THEN 25
                          ELSE IF age < 50 THEN 15
                          ELSE 5
        horizon_factor == IF horizon > 15 THEN 35
                          ELSE IF horizon > 10 THEN 25
                          ELSE IF horizon > 5 THEN 15
                          ELSE 5
        tolerance      == CASE risk_tolerance = "Low"    -> 10
                            [] risk_tolerance = "Medium" -> 20
                            [] risk_tolerance = "High"   -> 30
                            [] OTHER                     -> 20
    IN  Min(age_factor + horizon_factor + tolerance, 100)

\* _classify_risk_profile
ClassifyRiskProfile(risk_score) ==
    IF risk_score >= 75 THEN "Aggressive"
    ELSE IF risk_score >= 45 THEN "Balanced"
    ELSE "Conservative"

\* _determine_life_stage
DetermineLifeStage(age) ==
    IF age < 30 THEN "Early Career"
    ELSE IF age < 45 THEN "Mid Career"
    ELSE IF age < 60 THEN "Pre-Retirement"
    ELSE "Retirement"

\* _suggest_goals
SuggestGoals(age, horizon, income) ==
    LET by_age == IF age < 35
                      THEN <<"Build emergency fund (6 months expenses)",
                             "Start retirement corpus building",
                             "Plan for home down payment">>
                  ELSE IF age < 50
                      THEN <<"Children's education fund",
                             "Accelerate retirement savings",
                             "Plan for home upgrade/vacation property">>
                  ELSE <<"Maximize retirement corpus",
                         "Create passive income streams",
                         "Estate planning">>
    IN  IF horizon > 10 THEN Append(by_age, "Long-term wealth creation") ELSE by_age

\* _max_equity_allocation: min(max(max(100 - age, 20) + (risk_score - 5) * 5, 20), 80)
MaxEquityAllocation(age, risk_score) ==
    LET base_allocation == Max(100 - age, 20) * 10
        adjustment      == (risk_score - 50) * 5
    IN  Min(Max(base_allocation + adjustment, 200), 800)

\* create_profile
CreateProfile(age, income, horizon, risk_tolerance, savings) ==
    LET risk_score == CalculateRiskScore(age, horizon, risk_tolerance)
    IN  [age                   |-> age,
         income                |-> income,
         horizon               |-> horizon,
         risk_tolerance        |-> risk_tolerance,
         savings               |-> savings,
         risk_score            |-> risk_score,
         risk_profile          |-> ClassifyRiskProfile(risk_score),
         life_stage            |-> DetermineLifeStage(age),
         suggested_goals       |-> SuggestGoals(age, horizon, income),
         max_equity_allocation |-> MaxEquityAllocation(age, risk_score),
         recommended_sip       |-> income * 2,
         emergency_fund_target |-> income * 6]

\* ages and horizons on both sides of every threshold of the agent
Ages == {18, 29, 30, 34, 39, 40, 49, 50, 65, 80, 85}
Horizons == {1, 5, 6, 10, 11, 15, 16, 30}
\* "Unknown" stands for any key tolerance_scores does not know
RiskTolerances == {"Low", "Medium", "High", "Unknown"}
Incomes == 0..1

\* the asset scores offered to construct for a created profile
ProfileScoreMappings ==
    {EmptyDict,
     [stocks |-> [i \in 1..2 |-> StockItem(i)], mutual_funds |-> <<FundItem(1)>>]}

InitProfiling ==
    /\ profile_args = EmptyDict
    /\ created_profile = EmptyDict
    /\ profile_portfolio = EmptyDict
    /\ upc = "idle"
    /\ IdlePortfolio /\ IdleScoring /\ IdleRanking /\ IdleRebalancing /\ IdleMetrics
    /\ IdleAggregate /\ IdleCache

\* UserProfilingAgent().create_profile(age, income, horizon, risk_tolerance, savings)
CreateProfileCall ==
    /\ upc = "idle"
    /\ \E age \in Ages, income \in Incomes, horizon \in Horizons,
          risk_tolerance \in RiskTolerances :
          /\ profile_args' = [age |-> age, income |-> income, horizon |-> horizon,
                              risk_tolerance |-> risk_tolerance, savings |-> 0]
          /\ created_profile' = CreateProfile(age, income, horizon, risk_tolerance, 0)
    /\ upc' = "profiled"
    /\ UNCHANGED <<profile_portfolio, notProfiling>>

\* construct followed by validate_and_adjust, both with the created profile
AllocateForProfile ==
    /\ upc = "profiled"
    /\ \E scores \in ProfileScoreMappings, amount \in InvestmentAmounts :
          profile_portfolio' =
              ValidateAndAdjust(ConstructPortfolio(created_profile, scores, amount),
                                created_profile)
    /\ upc' = "allocated"
    /\ UNCHANGED <<profile_args, created_profile, notProfiling>>

NextProfiling == CreateProfileCall \/ AllocateForProfile

SpecProfiling == InitProfiling /\ [][NextProfiling]_vars

\* C28: for every profile create_profile produces (any age, horizon and risk
\* tolerance) the Equity percentage of the portfolio that construct and
\* validate_and_adjust produce for its risk_profile never exceeds the
\* profile's max_equity_allocation.
C28_EquityWithinProfileMaximum ==
    upc = "allocated" =>
        profile_portfolio["strategic_percentages"]["Equity"] * 10
            <= created_profile["max_equity_allocation"]

\* C28, supporting: the Equity percentage is the table entry of the
\* risk_profile, whatever max_equity_allocation is
C28_EquityFollowsRiskProfile ==
    upc = "allocated" =>
        profile_portfolio["strategic_percentages"]["Equity"]
            = GetStrategicAllocation(created_profile["risk_profile"])["Equity"]

-----------------------------------------------------------------------------
(* StockDataAgent.fetch_stock_data and its cache (data_agents.py).  Times   *)
(* are whole seconds.                                                       *)

\* cache_duration and max_retries of __init__
CacheDuration == 300
MaxRetries == 3

SecondsPerDay == 86400

\* (datetime.now() - timestamp).seconds: the seconds field of the
\* normalised timedelta, which leaves the whole days out
TimedeltaSeconds(now, timestamp) == (now - timestamp) % SecondsPerDay

\* C30 mutant: a cache that never expires
CacheHitAlways(c, symbol, now) == symbol \in DOMAIN c

\* the cache test of fetch_stock_data
CacheHit(c, symbol, now) ==
    /\ symbol \in DOMAIN c
    /\ TimedeltaSeconds(now, c[symbol].timestamp) < CacheDuration

RECURSIVE Attempts(_, _, _, _, _)
\* the retry loop from attempt number `attempt` on, entered at time `now`:
\* outcomes[attempt + 1] is "price" when a source gave a price above 0,
\* "none" when no source did (sleep min(10 * 2 ** attempt, 90)) and "error"
\* when the attempt raised (sleep min(5 * 2 ** attempt, 60)).
Attempts(c, symbol, now, outcomes, attempt) ==
    IF attempt >= MaxRetries
        THEN [data |-> EmptyDict, cache |-> c, now |-> now, cache_hit |-> FALSE]
    ELSE IF outcomes[attempt + 1] = "price"
        THEN LET data == [symbol |-> symbol, current_price |-> 100, timestamp |-> now]
             IN  [data      |-> data,
                  cache     |-> Put(c, symbol, [data |-> data, timestamp |-> now]),
                  now       |-> now,
                  cache_hit |-> FALSE]
    ELSE IF outcomes[attempt + 1] = "error"
        THEN Attempts(c, symbol, now + Min(5 * 2^attempt, 60), outcomes, attempt + 1)
    ELSE Attempts(c, symbol, now + Min(10 * 2^attempt, 90), outcomes, attempt + 1)

\* fetch_stock_data(symbol) called at time `now`; "" is the invalid symbol
FetchStockData(c, symbol, now, outcomes) ==
    IF symbol = ""
        THEN [data |-> EmptyDict, cache |-> c, now |-> now, cache_hit |-> FALSE]
    ELSE IF CacheHit(c, symbol, now)
        THEN [data |-> c[symbol].data, cache |-> c, now |-> now, cache_hit |-> TRUE]
    ELSE Attempts(c, symbol, now, outcomes, 0)

MaxCalls == 2
MaxAdvances == 1

Symbols == {"", "TCS", "INFY"}

\* what the attempts of one call run into
AttemptOutcomes == [1..MaxRetries -> {"price", "none", "error"}]

\* time between two calls: around cache_duration, and around a day later
Delays == {CacheDuration - 1, CacheDuration, SecondsPerDay,
           SecondsPerDay + CacheDuration}

InitCache ==
    /\ clock = 0
    /\ cache = EmptyDict
    /\ cache_before = EmptyDict
    /\ fetch_out = NoFetch
    /\ calls = 0
    /\ advances = 0
    /\ IdlePortfolio /\ IdleScoring /\ IdleRanking /\ IdleRebalancing /\ IdleMetrics
    /\ IdleAggregate /\ IdleProfiling

\* agent.fetch_stock_data(symbol)
Fetch ==
    /\ calls >= 0 /\ calls < MaxCalls
    /\ \E symbol \in Symbols, outcomes \in AttemptOutcomes :
          LET out == FetchStockData(cache, symbol, clock, outcomes)
          IN  /\ cache' = out.cache
              /\ clock' = out.now
              /\ fetch_out' = [symbol |-> symbol, called_at |-> clock,
                               data |-> out.data, cache_hit |-> out.cache_hit]
    /\ cache_before' = cache
    /\ calls' = calls + 1
    /\ UNCHANGED <<advances, notCache>>

\* time passes between two calls
Advance ==
    /\ calls >= 1 /\ calls < MaxCalls
    /\ advances < MaxAdvances
    /\ \E d \in Delays : clock' = clock + d
    /\ advances' = advances + 1
    /\ UNCHANGED <<cache, cache_before, fetch_out, calls, notCache>>

NextCache == Fetch \/ Advance

SpecCache == InitCache /\ [][NextCache]_vars

\* the last call returned a record out of the cache, without fetching
ServedFromCache == calls >= 1 /\ fetch_out.cache_hit

\* seconds between the storing of the record of the last call's symbol and
\* the call
AgeAtCall == fetch_out.called_at - cache_before[fetch_out.symbol].timestamp

\* C30: across any sequence of fetch_stock_data calls at arbitrary times a
\* cached record of a symbol is returned without refetching only if it was
\* stored less than cache_duration seconds (300) before the call; a record
\* stored cache_duration seconds or more earlier, one stored more than a day
\* earlier included, is never served from the cache, and a failed fetch
\* never stores a cache entry.
C30_CacheServesOnlyFreshRecords ==
    calls >= 1 =>
        /\ ServedFromCache =>
              /\ fetch_out.symbol \in DOMAIN cache_before
              /\ fetch_out.data = cache_before[fetch_out.symbol].data
              /\ AgeAtCall < CacheDuration
        /\ (fetch_out.symbol \in DOMAIN cache_before /\ AgeAtCall >= CacheDuration)
              => ~ServedFromCache
        /\ fetch_out.data = EmptyDict => cache = cache_before

\* C30, supporting: a record is served when the seconds left after taking
\* the whole days off its age are below cache_duration, and a call that
\* serves from the cache or fails leaves the cache as it was
C30_CacheServesByTimeOfDay ==
    calls >= 1 =>
        /\ ServedFromCache =>
              /\ fetch_out.symbol \in DOMAIN cache_before
              /\ fetch_out.data = cache_before[fetch_out.symbol].data
              /\ AgeAtCall % SecondsPerDay < CacheDuration
        /\ (fetch_out.symbol \in DOMAIN cache_before /\ AgeAtCall < CacheDuration)
              => ServedFromCache
        /\ (ServedFromCache \/ fetch_out.data = EmptyDict) => cache = cache_before

====
